---- MODULE Spec2Model ----
(***************************************************************************)
(* A model of the concept graph of the "definer" system: concepts with a  *)
(* parent, an ordered list of constituents, a Context and a list of       *)
(* Representations (definer/concept.py), the grammar-driven construction  *)
(* of concepts (definer/basic_grammar_concept.py), python definitions     *)
(* (definer_c/python_definition.py) and the interpreter that drives them  *)
(* (definer_c/interpreter.py).                                            *)
(*                                                                         *)
(* Objects live on a heap and are named by positive integers (Python's    *)
(* id(self)); None is 0.  A Context is a heap object of its own, named by *)
(* a handle, because several concepts can hold the same Context object.   *)
(***************************************************************************)
EXTENDS Integers, Sequences, FiniteSets, TLC

\* ------------------------------------------------------------------ bounds
\* The largest number of concepts a behaviour allocates.
MaxConcepts == 4
\* The largest number of symbols of one parsed statement.
MaxParts == 2
\* The largest number of identifiers bound at a time, over all contexts.
MaxBindings == 2

\* ------------------------------------------------------- small input sets
\* Identifiers that bind() is called with and that snippets mention.
Idents == {"a", "b"}
\* Literal values that bind() is called with.
Literals == {1, 2}
\* Token symbols of statements.
Tokens == {"x", "y"}

None == 0

\* ------------------------------------------------------------- sequences
InSeq(x, s) == \E i \in 1..Len(s) : s[i] = x

\* list.remove(x): drops the first occurrence of x.
RECURSIVE ListRemove(_, _)
ListRemove(s, x) ==
    IF s = <<>> THEN <<>>
    ELSE IF Head(s) = x THEN Tail(s)
    ELSE <<Head(s)>> \o ListRemove(Tail(s), x)

\* d[k] = v on a dict.
Put(d, k, v) == [x \in (DOMAIN d) \cup {k} |-> IF x = k THEN v ELSE d[x]]

EmptyDict == [x \in {} |-> 0]

SeqsUpTo(S, n) == UNION {[1..k -> S] : k \in 0..n}

\* --------------------------------------------------------- Representation
LEVEL_HUMAN_SEMMANTICS == 50
LEVEL_INPUT_MORPHISM == 30
LEVEL_SYSTEM_INFORMATION == 10
LEVEL_IDENTIFIER == 5
LEVEL_UNKNOWN == 0

\* A raw text is the sequence of its space-separated words; a word is a
\* marker k, a string payload s and a number payload n.
Word(k, s, n) == [k |-> k, s |-> s, n |-> n]

Representation(raw, level) == [raw |-> raw, level |-> level]

\* human_friendly(): the text, bracketed when it holds a space.
human_friendly(r) == [block |-> Len(r.raw) > 1, words |-> r.raw]

\* ------------------------------------------------------------------ state
VARIABLES
    concepts,               \* the ids of the concepts created so far
    ctype,                  \* concept -> the name of its class
    parent_concept,         \* concept -> its parent, or None
    constituent_concepts,   \* concept -> the list of its constituents
    context_of,             \* concept -> the handle of its Context object
    contexts,               \* handle -> dict: key -> value
    representations,        \* concept -> the list of its Representations
    definitions,            \* definition handle -> PythonDefinition object
    current_concept,        \* InterpreterBase.state.current_concept
    top_level_concepts,     \* InterpreterBase.state.top_level_concepts
    prompts,                \* InterpreterBase.state.prompts
    last_op,                \* the last operation on concepts and its outcome
    nodes,                  \* the ids of the Nodes created so far
    node_pieces,            \* Node -> the list pieces
    node_representations,   \* Node -> the list representations
    is_piece_of,            \* Node -> the list is_piece_of
    is_representation_of,   \* Node -> the list is_representation_of
    node_context,           \* Node -> its Context: key -> value
    node_definitions,       \* Node -> the PythonDefinition made for it
    flatten_acum,           \* the list made once for the default of acum
    flattened,              \* the last call of the flattening and its outcome
    lifted,                 \* the last call on a SubstructureMatch
    submatched,             \* the last call of the substructure matching
    interpreters,           \* CLI.interpreters
    current_interpreter_index,  \* CLI.current_interpreter_index
    finished_prompts,       \* the concepts of the prompts that were finished
    definer_nodes,          \* definer Node -> the list objects its fields hold
    definer_lists,          \* list object -> the nodes in it
    definer_interpreter,    \* the InterpreterBase of package definer
    visited                 \* the last call of NodeVisitor.visit and its outcome

heap_vars == <<concepts, ctype, parent_concept, constituent_concepts,
               context_of, contexts, representations, definitions>>
state_vars == <<current_concept, top_level_concepts, prompts>>
node_vars == <<nodes, node_pieces, node_representations, is_piece_of,
               is_representation_of, node_context, node_definitions>>
call_vars == <<flatten_acum, flattened, lifted, submatched>>
cli_vars == <<interpreters, current_interpreter_index, finished_prompts>>
definer_vars == <<definer_nodes, definer_lists, definer_interpreter, visited>>
vars == <<heap_vars, state_vars, last_op, node_vars, call_vars, cli_vars,
          definer_vars>>

\* The heap as one value, so that the constructors can be composed.
Heap ==
    [ids |-> concepts, ctype |-> ctype, parent |-> parent_concept,
     children |-> constituent_concepts, ctxof |-> context_of,
     ctx |-> contexts, reps |-> representations, defs |-> definitions]

SetHeap(H) ==
    /\ concepts' = H.ids
    /\ ctype' = H.ctype
    /\ parent_concept' = H.parent
    /\ constituent_concepts' = H.children
    /\ context_of' = H.ctxof
    /\ contexts' = H.ctx
    /\ representations' = H.reps
    /\ definitions' = H.defs

\* id(self) of the next object.
NewId(H) == Cardinality(H.ids) + 1

\* ---------------------------------------------------------------- Context
\* The handle of the one Context() object that is the default argument of
\* ConceptBase.__init__: every concept made without a context holds it.
DefaultContext == 0

DEFINITION_KEY == "%%DEFINITION%%"

\* Values of a Context: literals, concepts, definitions, argument lists and
\* opaque external objects, each a tagged number.
Value(kind, v) == [kind |-> kind, v |-> v]

\* A fresh Context() for the object self.
NewContext(H, self) == [H EXCEPT !.ctx = Put(@, self, EmptyDict)]

\* ------------------------------------------------------------ ConceptBase
\* The identifier: id(self), or for a command (command_identifier, id(self)).
Identifier(cmd, n) == [cmd |-> cmd, n |-> n]

IdRaw(identifier) ==
    IF identifier.cmd = ""
    THEN <<Word("#|id=", "", identifier.n)>>
    ELSE <<Word("#|id=(", identifier.cmd, 0), Word(")|#", "", identifier.n)>>

TypeIdRaw(type, identifier) ==
    <<Word("#|", type, 0)>> \o
    (IF identifier.cmd = ""
     THEN <<Word("id=", "", identifier.n)>>
     ELSE <<Word("id=(", identifier.cmd, 0), Word(")|#", "", identifier.n)>>)

\* ConceptBase.__init__ on the new object self; context is a handle.
ConceptBase_init(H, self, type, parent, constituents, context, reps, identifier) ==
    LET reps1 == reps \o
                 <<Representation(IdRaw(identifier), LEVEL_IDENTIFIER),
                   Representation(TypeIdRaw(type, identifier), LEVEL_IDENTIFIER)>>
        ch0 == Put(H.children, self, constituents)
        ch1 == IF parent # None /\ ~InSeq(self, ch0[parent])
               THEN [ch0 EXCEPT ![parent] = Append(@, self)]
               ELSE ch0
    IN  [H EXCEPT !.ids = @ \cup {self},
                  !.ctype = Put(@, self, type),
                  !.parent = Put(@, self, parent),
                  !.children = ch1,
                  !.ctxof = Put(@, self, context),
                  !.reps = Put(@, self, reps1)]

\* unlink() that forgets to clear the parent reference.
unlink_keeps_parent(H, self) ==
    LET p == H.parent[self] IN
    IF p # None /\ InSeq(self, H.children[p])
    THEN [H EXCEPT !.children = [@ EXCEPT ![p] = ListRemove(@, self)]]
    ELSE H

\* ConceptBase.unlink
unlink(H, self) ==
    LET p == H.parent[self]
        ch == IF p # None /\ InSeq(self, H.children[p])
              THEN [H.children EXCEPT ![p] = ListRemove(@, self)]
              ELSE H.children
    IN  [H EXCEPT !.children = ch, !.parent = [@ EXCEPT ![self] = None]]

\* ConceptBase.bind
bind(H, self, identifier, value) ==
    [H EXCEPT !.ctx = [@ EXCEPT ![H.ctxof[self]] = Put(@, identifier, value)]]

\* Binding(path, identifier, value)
Binding(path, identifier, value) ==
    [path |-> path, identifier |-> identifier, value |-> value]

\* ConceptBase.lookup_bindings
RECURSIVE lookup_bindings(_, _, _, _)
RECURSIVE lookup_constituents(_, _, _, _, _)

\* lookup_bindings() that goes on below a concept that binds the identifier.
lookup_bindings_no_shadow(H, self, identifier, path) ==
    (IF identifier \in DOMAIN H.ctx[H.ctxof[self]]
     THEN <<Binding(Append(path, self), identifier,
                    H.ctx[H.ctxof[self]][identifier])>>
     ELSE <<>>) \o
    lookup_constituents(H, H.children[self], identifier, Append(path, self), 1)

\* The loop over the constituents that stops at the first one with bindings.
lookup_constituents_first(H, cs, identifier, path, i) ==
    IF i > Len(cs) THEN <<>>
    ELSE IF lookup_bindings(H, cs[i], identifier, path) # <<>>
    THEN lookup_bindings(H, cs[i], identifier, path)
    ELSE lookup_constituents(H, cs, identifier, path, i + 1)

lookup_bindings(H, self, identifier, path) ==
    IF identifier \in DOMAIN H.ctx[H.ctxof[self]]
    THEN <<Binding(Append(path, self), identifier,
                   H.ctx[H.ctxof[self]][identifier])>>
    ELSE lookup_constituents(H, H.children[self], identifier,
                             Append(path, self), 1)

\* The loop of lookup_bindings over the constituents, from the i-th on.
lookup_constituents(H, cs, identifier, path, i) ==
    IF i > Len(cs) THEN <<>>
    ELSE lookup_bindings(H, cs[i], identifier, path) \o
         lookup_constituents(H, cs, identifier, path, i + 1)


\* ------------------------------------------------------------ definitions
\* A python snippet is its statements in order, each an optional assignment
\* target and the names its expression reads; ok is FALSE for a text that
\* does not compile.
Stmt(target, uses) == [target |-> target, uses |-> uses]
Source(ok, stmts) == [ok |-> ok, stmts |-> stmts]

Sources ==
    { Source(TRUE, <<Stmt("x", {"a", "b"})>>),                 \* x = a + b
      Source(TRUE, <<Stmt("a", {}), Stmt("x", {"a", "b"})>>),  \* a = 1; x = a + b
      Source(TRUE, <<Stmt("x", {})>>),                         \* x = 1
      Source(FALSE, <<>>) }                                    \* x = (

\* The names of a snippet.
Assigned(source) ==
    {source.stmts[i].target : i \in 1..Len(source.stmts)} \ {""}
Referenced(source) ==
    UNION {source.stmts[i].uses : i \in 1..Len(source.stmts)}

\* symtable.symtable(source).get_symbols() of the top-level block: a name
\* bound anywhere in the block is local, a name only read is an implicit
\* global; no name of the top-level block is free.
Symbol(name, local) ==
    [name |-> name, is_local |-> local, is_global |-> ~local, is_free |-> FALSE]
get_symbols(source) ==
    {Symbol(n, n \in Assigned(source)) :
        n \in Assigned(source) \cup Referenced(source)}

\* The names PythonDefinition._compute_free_variables keeps.
free_names(source) ==
    {s.name : s \in {t \in get_symbols(source) : t.is_free \/ t.is_global}}

\* All the orders a symbol table can list a set of names in.
Orders(S) ==
    {f \in [1..Cardinality(S) -> S] : \A i, j \in DOMAIN f : f[i] = f[j] => i = j}

\* PythonDefinition._compute_free_variables: None for a text that does not
\* compile (the except branch), else the kept names in table order.
NoFreeVars == [ok |-> FALSE, names |-> <<>>]
compute_free_variables(source) ==
    IF ~source.ok THEN {NoFreeVars}
    ELSE {[ok |-> TRUE, names |-> f] : f \in Orders(free_names(source))}

\* A definition value: cls is its class, concept its concept, inner the
\* inner definitions of a group, handle the heap object of a python
\* definition (None otherwise).
Definition(cls, concept, inner, handle) ==
    [cls |-> cls, concept |-> concept, inner |-> inner, handle |-> handle]

\* ConceptBase._group_possible_definition
group_possible_definition(self, defs) ==
    Definition("GroupPossibleDefinition", self, defs, None)

\* Context.definition_binding of the concept's context
definition_binding(H, self) ==
    IF DEFINITION_KEY \in DOMAIN H.ctx[H.ctxof[self]]
    THEN H.ctx[H.ctxof[self]][DEFINITION_KEY]
    ELSE Value("none", None)

\* ConceptBase.possible_definition
RECURSIVE possible_definition(_, _)
RECURSIVE possible_definitions_of(_, _, _)
possible_definition(H, self) ==
    LET direct_def == definition_binding(H, self) IN
    IF direct_def.kind # "none"
    THEN Definition("PythonDefinition", H.defs[direct_def.v].concept, <<>>,
                    direct_def.v)
    ELSE IF Len(H.children[self]) = 0
    THEN Definition("DefinitionBase", self, <<>>, None)
    ELSE group_possible_definition(self,
             possible_definitions_of(H, H.children[self], 1))

\* The loop of possible_definition over the constituents, from the i-th on.
possible_definitions_of(H, cs, i) ==
    IF i > Len(cs) THEN <<>>
    ELSE <<possible_definition(H, cs[i])>> \o
         possible_definitions_of(H, cs, i + 1)

\* The diagnostics.
NotWellDefined(cls, definition, concept, binding_name, bindings) ==
    [cls |-> cls, definition |-> definition, concept |-> concept,
     binding_name |-> binding_name, bindings |-> bindings]

\* A DefinitionBase that reports nothing.
DefinitionBase_get_not_well_defined_nothing(H, d) == <<>>

\* DefinitionBase.get_not_well_defined
DefinitionBase_get_not_well_defined(H, d) ==
    <<NotWellDefined("NotWellDefinedConcept", d, d.concept, "", <<>>)>>

\* A group definition that reports nothing.
GroupPossibleDefinition_get_not_well_defined_nothing(H, d) == <<>>

\* GroupPossibleDefinition overrides nothing of DefinitionBase.
GroupPossibleDefinition_get_not_well_defined(H, d) ==
    DefinitionBase_get_not_well_defined(H, d)

\* The diagnostics PythonDefinition.get_not_well_defined adds for one name.
free_variable_diagnostics(H, d, v) ==
    LET binds == lookup_bindings(H, d.concept, v, <<>>) IN
    IF Len(binds) < 1
    THEN <<NotWellDefined("NotWellDefinedMissingBinding", d, None, v, <<>>)>>
    ELSE IF Len(binds) > 1
    THEN <<NotWellDefined("NotWellDefinedAmbiguousBinding", d, None, v, binds)>>
    ELSE <<>>

\* The loop of PythonDefinition.get_not_well_defined, from the i-th name on.
RECURSIVE free_variables_loop(_, _, _, _)
free_variables_loop(H, d, fv, i) ==
    IF i > Len(fv) THEN <<>>
    ELSE free_variable_diagnostics(H, d, fv[i]) \o
         free_variables_loop(H, d, fv, i + 1)

\* PythonDefinition.get_not_well_defined without the test of free_vars
\* against None.
PythonDefinition_get_not_well_defined_unchecked(H, d) ==
    free_variables_loop(H, d, H.defs[d.handle].free_vars.names, 1)

\* PythonDefinition.get_not_well_defined
PythonDefinition_get_not_well_defined(H, d) ==
    LET free_vars == H.defs[d.handle].free_vars IN
    IF ~free_vars.ok
    THEN <<NotWellDefined("NotWellDefinedSyntaxError", d, None, "", <<>>)>>
    ELSE free_variables_loop(H, d, free_vars.names, 1)

\* get_not_well_defined, by the class of the definition.
get_not_well_defined(H, d) ==
    CASE d.cls = "PythonDefinition" -> PythonDefinition_get_not_well_defined(H, d)
      [] d.cls = "GroupPossibleDefinition" ->
            GroupPossibleDefinition_get_not_well_defined(H, d)
      [] OTHER -> DefinitionBase_get_not_well_defined(H, d)

\* DefinitionBase.is_well_defined
is_well_defined(H, d) == Len(get_not_well_defined(H, d)) = 0


\* ------------------------------------------------- concepts from a grammar
\* The symbols of a statement: a token, or a block holding a statement.
TokenSymbol(tok) == [kind |-> "TokenSymbol", tok |-> tok, parts |-> <<>>]
BlockSymbol(parts) == [kind |-> "BlockSymbol", tok |-> "", parts |-> parts]

TokenSymbols == {TokenSymbol(t) : t \in Tokens}
\* The blocks of the inputs hold one token: [[ x ]].
BlockSymbols == {BlockSymbol(<<s>>) : s \in TokenSymbols}
\* Statement.parts of the inputs.
Statements == SeqsUpTo(TokenSymbols \cup BlockSymbols, MaxParts)

\* The number of concepts a statement becomes.
RECURSIVE StatementSize(_)
StatementSize(parts) ==
    IF parts = <<>> THEN 1
    ELSE (IF Head(parts).kind = "TokenSymbol" THEN 1
          ELSE StatementSize(Head(parts).parts))
         + StatementSize(Tail(parts))

\* BasicGrammarConcept._token_symbol_concept
token_symbol_concept(H, symbol, parent) ==
    LET self == NewId(H)
        reps == <<Representation(<<Word("", symbol, 0)>>, LEVEL_INPUT_MORPHISM),
                  Representation(<<Word("#|Symbol:", symbol, 0)>>,
                                 LEVEL_SYSTEM_INFORMATION)>>
    IN  ConceptBase_init(NewContext(H, self), self, "BasicGrammarConcept",
                         parent, <<>>, self, reps, Identifier("", self))

\* BasicGrammarConcept._concepts_from_statement: the heap after it and the
\* statement concept it returns.  The statement concept is made without a
\* context argument.
RECURSIVE concepts_from_statement(_, _, _)
RECURSIVE symbol_concepts(_, _, _)
RECURSIVE symbols_loop(_, _, _, _)
concepts_from_statement(H, parts, parent) ==
    LET state_parent == NewId(H)
        H1 == ConceptBase_init(H, state_parent, "BasicGrammarConcept", parent,
                               <<>>, DefaultContext, <<>>,
                               Identifier("", state_parent))
    IN  [H |-> symbols_loop(H1, parts, state_parent, 1), c |-> state_parent]

\* BasicGrammarConcept._symbol_concepts (and _block_symbol_concepts)
symbol_concepts(H, symbol, parent) ==
    IF symbol.kind = "TokenSymbol"
    THEN token_symbol_concept(H, symbol.tok, parent)
    ELSE concepts_from_statement(H, symbol.parts, parent).H

\* The loop of _concepts_from_statement over the parts, from the i-th on.
symbols_loop(H, parts, parent, i) ==
    IF i > Len(parts) THEN H
    ELSE symbols_loop(symbol_concepts(H, parts[i], parent), parts, parent, i + 1)

\* The text of an object that is no string: it holds spaces.
ObjectText == <<Word("<ContextSwitch", "", 0), Word("object>", "", 0)>>

\* BoxConcept.__init__: value is the text of the boxed value.
BoxConcept_init(H, self, parent, value) ==
    LET H1 == NewContext(H, self)
        H2 == [H1 EXCEPT !.ctx = [@ EXCEPT ![self] =
                                    Put(@, "value", Value("box", self))]]
        reps == <<Representation(value, LEVEL_INPUT_MORPHISM),
                  Representation(<<Word("#|Box:", "", 0)>> \o value,
                                 LEVEL_SYSTEM_INFORMATION)>>
    IN  ConceptBase_init(H2, self, "BoxConcept", parent, <<>>, self, reps,
                         Identifier("", self))

\* CommandConcept.__init__: the constituents and context['args'] are the
\* one list arg_concepts.
CommandConcept_init(H, self, parent, command_identifier, arg_concepts) ==
    LET H1 == NewContext(H, self)
        H2 == [H1 EXCEPT !.ctx = [@ EXCEPT ![self] =
                                    Put(@, "args", Value("args", self))]]
        reps == <<Representation(
                    <<Word("", command_identifier, 0), Word("(", "", Len(arg_concepts)),
                      Word(")", "", 0)>>,
                    LEVEL_HUMAN_SEMMANTICS)>>
    IN  ConceptBase_init(H2, self, "CommandConcept", parent, arg_concepts, self,
                         reps, Identifier(command_identifier, self))

\* BasicGrammarConcept._concepts_from_command
concepts_from_command(H, cmd_name, parts, parent) ==
    LET cmd == NewId(H)
        H1 == CommandConcept_init(H, cmd, parent, cmd_name, <<>>)
    IN  [H |-> concepts_from_statement(H1, parts, cmd).H, c |-> cmd]

\* PythonDefinition.__init__ with the free variables fv it computed.
PythonDefinition_init(H, handle, concept, source, fv) ==
    [H EXCEPT !.defs = Put(@, handle,
                           [concept |-> concept, source |-> source,
                            free_vars |-> fv])]

\* Context.bind_definition on the concept's context
bind_definition(H, self, handle) ==
    bind(H, self, DEFINITION_KEY, Value("definition", handle))

\* BasicGrammarConcept._concepts_from_context_switch, past the check of the
\* context tag.
concepts_from_context_switch(H, source, fv, parent) ==
    LET c == NewId(H)
        H1 == BoxConcept_init(H, c, parent, ObjectText)
        H2 == PythonDefinition_init(H1, c, c, source, fv)
    IN  [H |-> bind_definition(H2, c, c), c |-> c]

\* The context tags of the inputs; the last one is not accepted.
ContextTags == {"python", "", "lisp"}
AcceptedContext(tag) == tag = "python" \/ tag = ""

\* ParselessConcept.parse
ParselessConcept_parse(H, self, raw) ==
    LET c == NewId(H) IN [H |-> BoxConcept_init(H, c, self, raw), c |-> c]

\* The raw lines given to ParselessConcept.parse.
RawLines == {<<Word("", "x", 0)>>, <<Word("", "x", 0), Word("", "y", 0)>>}

\* ------------------------------------------------- representation matching
\* An expanded representation: a string (the text of a representation), a
\* list (a choice) or a tuple (a structure).
NoText == [block |-> FALSE, words |-> <<>>]
EStr(text) == [kind |-> "str", text |-> text, items |-> <<>>]
EList(items) == [kind |-> "list", text |-> NoText, items |-> items]
ETuple(items) == [kind |-> "tuple", text |-> NoText, items |-> items]

\* fully_expand_representations
RECURSIVE fully_expand_representations(_, _)

\* fully_expand_representations() that leaves out the concept's own
\* representations and keeps only the structure of its constituents.
fully_expand_representations_structure_only(H, c) ==
    LET child_res == [i \in 1..Len(H.children[c]) |->
                        fully_expand_representations(H, H.children[c][i])]
    IN  IF Len(H.children[c]) > 0
        THEN EList(<<ETuple(child_res)>>)
        ELSE EList(<<>>)

fully_expand_representations(H, c) ==
    LET res == [i \in 1..Len(H.reps[c]) |-> EStr(human_friendly(H.reps[c][i]))]
        child_res == [i \in 1..Len(H.children[c]) |->
                        fully_expand_representations(H, H.children[c][i])]
    IN  IF Len(H.children[c]) > 0
        THEN EList(Append(res, ETuple(child_res)))
        ELSE EList(res)

\* any_rep_match
RECURSIVE any_rep_match(_, _, _)

\* any_rep_match() whose structure check pairs the elements with the
\* constituents (zip) without comparing the two lengths first.
any_rep_match_zip_only(H, expanded_reps, c) ==
    IF expanded_reps.kind = "tuple"
    THEN \A i \in 1..Len(expanded_reps.items) :
            i <= Len(H.children[c]) =>
               any_rep_match(H, expanded_reps.items[i], H.children[c][i])
    ELSE IF expanded_reps.kind = "list"
    THEN \E i \in 1..Len(expanded_reps.items) :
            any_rep_match(H, expanded_reps.items[i], c)
    ELSE \E i \in 1..Len(H.reps[c]) :
            expanded_reps.text = human_friendly(H.reps[c][i])

any_rep_match(H, expanded_reps, c) ==
    IF expanded_reps.kind = "tuple"
    THEN /\ Len(expanded_reps.items) = Len(H.children[c])
         /\ \A i \in 1..Len(expanded_reps.items) :
               any_rep_match(H, expanded_reps.items[i], H.children[c][i])
    ELSE IF expanded_reps.kind = "list"
    THEN \E i \in 1..Len(expanded_reps.items) :
            any_rep_match(H, expanded_reps.items[i], c)
    ELSE \E i \in 1..Len(H.reps[c]) :
            expanded_reps.text = human_friendly(H.reps[c][i])

\* ------------------------------------------------------------- flattening
\* itertools.product(*child_flats): the tuples in the order it yields them,
\* the last position changing fastest.
RECURSIVE product(_, _)
RECURSIVE product_with(_, _, _)
product(child_flats, i) ==
    IF i > Len(child_flats) THEN << <<>> >>
    ELSE product_with(child_flats[i], product(child_flats, i + 1), 1)

\* The tuples that begin with the k-th and later elements of one position.
product_with(flats, rests, k) ==
    IF k > Len(flats) THEN <<>>
    ELSE [j \in 1..Len(rests) |-> <<flats[k]>> \o rests[j]]
            \o product_with(flats, rests, k + 1)

\* The outcome of a call of the flattening: the list returned, the list
\* given for acum as the call leaves it, and the exception raised.
FlattenOutcome(res, acum, fault) == [res |-> res, acum |-> acum, fault |-> fault]

\* Each path p of paths appended to acum as current_path + p.
append_paths(acum, current_path, paths) ==
    acum \o [j \in 1..Len(paths) |-> EList(current_path \o paths[j])]

\* The lists of a list of lists, one after the other (list.extend).
RECURSIVE extend_all(_, _)
extend_all(lists, i) ==
    IF i > Len(lists) THEN <<>> ELSE lists[i] \o extend_all(lists, i + 1)

\* flatten_fully_expanded_representations
RECURSIVE flatten_fully_expanded_representations(_, _, _)
RECURSIVE flatten_each(_, _)

\* The flattening that leaves the atoms of a list with structures out.
flatten_fully_expanded_representations_no_atoms(expanded_reps, current_path, acum) ==
    IF expanded_reps.kind = "str"
    THEN FlattenOutcome(<<>>, acum, "RuntimeError")
    ELSE IF expanded_reps.kind = "list"
            /\ \A i \in 1..Len(expanded_reps.items) : expanded_reps.items[i].kind = "str"
    THEN FlattenOutcome(<<expanded_reps>>, acum, "none")
    ELSE IF expanded_reps.kind = "tuple"
    THEN LET child_flats == flatten_each(expanded_reps.items, 1)
             child_prod == product(child_flats.flats, 1)
             acum1 == append_paths(acum, current_path, child_prod)
         IN  IF child_flats.fault # "none"
             THEN FlattenOutcome(<<>>, acum, child_flats.fault)
             ELSE FlattenOutcome(acum1, acum1, "none")
    ELSE LET tuples == SelectSeq(expanded_reps.items, LAMBDA x : x.kind = "tuple")
             tuple_flats == flatten_each(tuples, 1)
             child_flats == extend_all(tuple_flats.flats, 1)
             acum1 == append_paths(acum, current_path,
                          [j \in 1..Len(child_flats) |-> child_flats[j].items])
         IN  FlattenOutcome(acum1, acum1, "none")

flatten_fully_expanded_representations(expanded_reps, current_path, acum) ==
    IF expanded_reps.kind = "str"
    THEN FlattenOutcome(<<>>, acum, "RuntimeError")
    ELSE IF expanded_reps.kind = "list"
            /\ \A i \in 1..Len(expanded_reps.items) : expanded_reps.items[i].kind = "str"
    THEN FlattenOutcome(<<expanded_reps>>, acum, "none")
    ELSE IF expanded_reps.kind = "tuple"
    THEN LET child_flats == flatten_each(expanded_reps.items, 1)
             child_prod == product(child_flats.flats, 1)
             acum1 == append_paths(acum, current_path, child_prod)
         IN  IF child_flats.fault # "none"
             THEN FlattenOutcome(<<>>, acum, child_flats.fault)
             ELSE FlattenOutcome(acum1, acum1, "none")
    ELSE LET atoms == SelectSeq(expanded_reps.items, LAMBDA x : x.kind = "str")
             lists == SelectSeq(expanded_reps.items, LAMBDA x : x.kind = "list")
             tuples == SelectSeq(expanded_reps.items, LAMBDA x : x.kind = "tuple")
             atom_flats == flatten_fully_expanded_representations(
                               EList(atoms), <<>>, <<>>)
             tuple_flats == flatten_each(tuples, 1)
             child_flats == atom_flats.res \o extend_all(tuple_flats.flats, 1)
             acum1 == append_paths(acum, current_path,
                          [j \in 1..Len(child_flats) |-> child_flats[j].items])
         IN  IF Len(lists) > 0
             THEN FlattenOutcome(<<>>, acum, "RuntimeError")
             ELSE IF tuple_flats.fault # "none"
             THEN FlattenOutcome(<<>>, acum, tuple_flats.fault)
             ELSE FlattenOutcome(acum1, acum1, "none")

\* The calls made for the elements of a list from the i-th on, each with a
\* new current_path and a new acum: the lists they return, in order, and
\* the first exception raised.
flatten_each(items, i) ==
    IF i > Len(items) THEN [flats |-> <<>>, fault |-> "none"]
    ELSE LET res == flatten_fully_expanded_representations(items[i], <<>>, <<>>)
             rest == flatten_each(items, i + 1)
         IN  IF res.fault # "none" THEN [flats |-> <<>>, fault |-> res.fault]
             ELSE [flats |-> <<res.res>> \o rest.flats, fault |-> rest.fault]

\* The last call: the concept whose expansion was given, the expansion, the
\* list returned and the exception raised.
Flattened(c, expanded_reps, res, fault) ==
    [c |-> c, expanded_reps |-> expanded_reps, res |-> res, fault |-> fault]

\* ------------------------------------------------------------ interpreter
\* InterpreterBase._all_concepts: _dfs gives the concepts it lists and the
\* set q of the concepts seen.
RECURSIVE dfs(_, _, _)
RECURSIVE dfs_loop(_, _, _, _)
dfs(H, c, q) ==
    IF c \in q THEN [res |-> <<>>, q |-> q]
    ELSE LET r == dfs_loop(H, H.children[c], 1, [res |-> <<c>>, q |-> q \cup {c}])
         IN  r

\* The loop of _dfs (and of _all_concepts) over a list, from the i-th on.
dfs_loop(H, cs, i, acc) ==
    IF i > Len(cs) THEN acc
    ELSE LET r == dfs(H, cs[i], acc.q)
         IN  dfs_loop(H, cs, i + 1, [res |-> acc.res \o r.res, q |-> r.q])

all_concepts(H, tops) == dfs_loop(H, tops, 1, [res |-> <<>>, q |-> {}]).res

\* InterpreterBase._resolve_concept_reference
resolve_concept_reference(H, c, tops) ==
    LET c_fully_expanded_reps == fully_expand_representations(H, c)
    IN  SelectSeq(all_concepts(H, tops),
                  LAMBDA c0 : c0 # c /\ any_rep_match(H, c_fully_expanded_reps, c0))

\* The state of an interpreter with the heap and the exception raised.
Machine(H, cur, tops, ps, fault) ==
    [H |-> H, current_concept |-> cur, top_level_concepts |-> tops,
     prompts |-> ps, fault |-> fault]

\* The text of a message: it holds spaces.
Message(key, n) == <<Word("", key, 0), Word("", "", n)>>

\* state.prompts.append( MessagePrompt( message, self ) ): the prompt boxes
\* the message in a concept whose parent is the current concept.
append_MessagePrompt(M, message) ==
    LET c == NewId(M.H)
        H1 == BoxConcept_init(M.H, c, M.current_concept, message)
    IN  [M EXCEPT !.H = H1,
                  !.prompts = Append(@, [message |-> message, concept |-> c])]

\* The argument concept of enter_concept and enter_partial.
argument_concept(H, cmd) ==
    LET arg_c == H.children[cmd][1]
    IN  IF Len(H.children[arg_c]) = 1 THEN H.children[arg_c][1] ELSE arg_c

\* _command_enter_concept that enters the first of several matches.
command_enter_concept_first_match(M, cmd) ==
    LET concept_refs == resolve_concept_reference(M.H, argument_concept(M.H, cmd),
                                                  M.top_level_concepts)
    IN  IF Len(concept_refs) = 0
        THEN append_MessagePrompt(M, Message("Could not find concept to enter!", 0))
        ELSE [M EXCEPT !.current_concept = concept_refs[1]]

\* InterpreterBase._command_enter_concept
command_enter_concept(M, cmd) ==
    LET concept_refs == resolve_concept_reference(M.H, argument_concept(M.H, cmd),
                                                  M.top_level_concepts)
    IN  IF Len(concept_refs) = 0
        THEN append_MessagePrompt(M, Message("Could not find concept to enter!", 0))
        ELSE IF Len(concept_refs) > 1
        THEN append_MessagePrompt(M, Message("Concept to enter is Ambiguous found # matches",
                                             Len(concept_refs)))
        ELSE [M EXCEPT !.current_concept = concept_refs[1]]

\* InterpreterBase._command_enter_partial: the first known concept that is
\* not the argument is given to concept.any_rep_substructure_matches, a
\* name the concept module does not define.
command_enter_partial(M, cmd) ==
    LET arg_c == argument_concept(M.H, cmd)
        known == SelectSeq(all_concepts(M.H, M.top_level_concepts),
                           LAMBDA c0 : c0 # arg_c)
    IN  IF Len(known) > 0
        THEN [M EXCEPT !.fault = "AttributeError"]
        ELSE append_MessagePrompt(M, Message("Could not find concept to enter!", 0))

\* _command_leave_concept that takes the parent without looking at it.
command_leave_concept_unguarded(M, cmd) ==
    [M EXCEPT !.current_concept = M.H.parent[M.current_concept]]

\* InterpreterBase._command_leave_concept
command_leave_concept(M, cmd) ==
    IF M.H.parent[M.current_concept] # None
    THEN [M EXCEPT !.current_concept = M.H.parent[M.current_concept]]
    ELSE M

\* InterpreterBase._command_bind: with two arguments it reads the name
\* cmg, which is not defined.
command_bind(M, cmd) ==
    IF Len(M.H.children[M.H.children[cmd][1]]) # 2
    THEN append_MessagePrompt(M, Message("Error: bind must be given exactly two arguments", 0))
    ELSE [M EXCEPT !.fault = "NameError"]

\* The commands of the inputs; the last one has no handler.
Commands == {"enter_concept", "enter_partial", "leave_concept", "bind", "frobnicate"}

\* An _interpret_concept that leaves the command concept where it is.
interpret_unlink_skipped(H, c) == H

\* c.unlink() as InterpreterBase._interpret_concept calls it.
interpret_unlink(H, c) == unlink(H, c)

\* InterpreterBase._interpret_concept on a CommandConcept
interpret_concept(M, c, command_identifier) ==
    LET M1 == [M EXCEPT !.H = interpret_unlink(M.H, c)] IN
    CASE command_identifier = "enter_concept" -> command_enter_concept(M1, c)
      [] command_identifier = "enter_partial" -> command_enter_partial(M1, c)
      [] command_identifier = "leave_concept" -> command_leave_concept(M1, c)
      [] command_identifier = "bind" -> command_bind(M1, c)
      [] OTHER -> append_MessagePrompt(M1, Message("Error: Unknown command", 0))

\* ------------------------------------------------------- the node graph
\* The node graph as one value.
Graph ==
    [ids |-> nodes, pieces |-> node_pieces,
     representations |-> node_representations, is_piece_of |-> is_piece_of,
     is_representation_of |-> is_representation_of, context |-> node_context,
     defs |-> node_definitions]

SetGraph(G) ==
    /\ nodes' = G.ids
    /\ node_pieces' = G.pieces
    /\ node_representations' = G.representations
    /\ is_piece_of' = G.is_piece_of
    /\ is_representation_of' = G.is_representation_of
    /\ node_context' = G.context
    /\ node_definitions' = G.defs

\* Node.__init__ with a token structure only: the lists are new and empty
\* and the context is a new Context.
Node_init(G, self) ==
    [G EXCEPT !.ids = @ \cup {self},
              !.pieces = Put(@, self, <<>>),
              !.representations = Put(@, self, <<>>),
              !.is_piece_of = Put(@, self, <<>>),
              !.is_representation_of = Put(@, self, <<>>),
              !.context = Put(@, self, EmptyDict)]

\* l.append(x) if x is not in l
AppendNew(l, x) == IF InSeq(x, l) THEN l ELSE Append(l, x)

\* Node.add_representation
add_representation(G, self, node) ==
    LET G1 == [G EXCEPT !.representations[self] = AppendNew(@, node)]
    IN  [G1 EXCEPT !.is_representation_of[node] = AppendNew(@, self)]

\* Node.add_piece
add_piece(G, self, node) ==
    LET G1 == [G EXCEPT !.pieces[self] = AppendNew(@, node)]
    IN  [G1 EXCEPT !.is_piece_of[node] = AppendNew(@, self)]

\* Node.bind
Node_bind(G, self, identifier, value) ==
    [G EXCEPT !.context[self] = Put(@, identifier, value)]

\* A step of a NodePath: the list it goes through (None for a direct
\* step), the node it leaves and the node it reaches.
Step(list_id, from, node) == [direction |-> <<list_id, from>>, node |-> node]
DirectStep(node) == [direction |-> <<>>, node |-> node]

\* What a call gives: the exception it raised, or its value.
Raised(fault) == [fault |-> fault, value |-> <<>>]
Returned(value) == [fault |-> "none", value |-> value]

\* Node.lookup_bindings.  depth is the number of frames of lookup_bindings
\* on the stack: with more frames than nodes some node is on the stack
\* twice, the recursion never ends and the interpreter raises RuntimeError
\* (maximum recursion depth exceeded).
RECURSIVE Node_lookup_bindings(_, _, _, _, _)
RECURSIVE lookup_through(_, _, _, _, _, _, _, _)
Node_lookup_bindings(G, self, identifier, path_acum, depth) ==
    IF depth > Cardinality(G.ids) THEN Raised("RuntimeError")
    ELSE IF identifier \in DOMAIN G.context[self]
    THEN Returned(<<Binding(Append(path_acum, DirectStep(self)), identifier,
                            G.context[self][identifier])>>)
    ELSE LET in_pieces == lookup_through(G, self, G.pieces[self], "pieces",
                                         identifier, path_acum, depth, 1)
         IN  IF in_pieces.fault # "none" THEN in_pieces
             ELSE IF Len(in_pieces.value) > 0 THEN in_pieces
             ELSE LET in_parents ==
                          lookup_through(G, self, G.is_representation_of[self],
                                         "is_representation_of", identifier,
                                         path_acum, depth, 1)
                  IN  IF in_parents.fault # "none" THEN in_parents
                      \* the loop over is_piece_of reads parental_piece,
                      \* a name nothing assigns
                      ELSE IF Len(G.is_piece_of[self]) > 0 THEN Raised("NameError")
                      ELSE in_parents

\* One loop of Node.lookup_bindings over a list of nodes, from the i-th on.
lookup_through(G, self, l, list_id, identifier, path_acum, depth, i) ==
    IF i > Len(l) THEN Returned(<<>>)
    ELSE LET first == Node_lookup_bindings(G, l[i], identifier,
                          Append(path_acum, Step(list_id, self, l[i])), depth + 1)
         IN  IF first.fault # "none" THEN first
             ELSE LET rest == lookup_through(G, self, l, list_id, identifier,
                                             path_acum, depth, i + 1)
                  IN  IF rest.fault # "none" THEN rest
                      ELSE Returned(first.value \o rest.value)

\* PythonDefinition.__init__ of the node variant, with the free variables
\* fv it computed, and Node.bind_definition of it.
Node_bind_definition(G, self, source, fv) ==
    LET G1 == [G EXCEPT !.defs = Put(@, self, [node |-> self, source |-> source,
                                               free_vars |-> fv])]
    IN  Node_bind(G1, self, DEFINITION_KEY, Value("definition", self))

\* The loop of the node variant of PythonDefinition.get_not_well_defined,
\* from the i-th name on.
RECURSIVE Node_free_variables_loop(_, _, _, _)
Node_free_variables_loop(G, d, fv, i) ==
    IF i > Len(fv) THEN Returned(<<>>)
    ELSE LET binds == Node_lookup_bindings(G, d, fv[i], <<>>, 1) IN
         IF binds.fault # "none" THEN binds
         ELSE LET rest == Node_free_variables_loop(G, d, fv, i + 1)
                  nwds == IF Len(binds.value) < 1
                          THEN <<NotWellDefined("NotWellDefinedMissingBinding",
                                                d, None, fv[i], <<>>)>>
                          ELSE IF Len(binds.value) > 1
                          THEN <<NotWellDefined("NotWellDefinedAmbiguousBinding",
                                                d, None, fv[i], binds.value)>>
                          ELSE <<>>
              IN  IF rest.fault # "none" THEN rest
                  ELSE Returned(nwds \o rest.value)

\* PythonDefinition.get_not_well_defined of the node variant; d is the node
\* of the definition.
Node_get_not_well_defined(G, d) ==
    LET free_vars == G.defs[d].free_vars IN
    IF ~free_vars.ok
    THEN Returned(<<NotWellDefined("NotWellDefinedSyntaxError", d, None, "", <<>>)>>)
    ELSE Node_free_variables_loop(G, d, free_vars.names, 1)


\* ---------------------------------------------------- substructure matches
\* SubstructureMatch.WHOLE_CONCEPT, and a range of the constituents of a
\* concept from the lo-th up to the hi-th.
WHOLE_CONCEPT == [whole |-> TRUE, lo |-> 0, hi |-> 0]
PartialRange(lo, hi) == [whole |-> FALSE, lo |-> lo, hi |-> hi]

\* SubstructureMatch
SubstructureMatch(cs, constituent_ranges) ==
    [concepts |-> cs, constituent_ranges |-> constituent_ranges]

\* InterpreterBase._is_liftable_substructure_match.  The loop reads the name
\* SubstructureMatch, which the module neither defines nor imports (the
\* class is concept.SubstructureMatch): the first range raises NameError.
is_liftable_substructure_match(subm) ==
    IF Len(subm.constituent_ranges) > 0
    THEN Raised("NameError")
    ELSE Returned(TRUE)

\* InterpreterBase._lift_substructure_match: the value returned (None for
\* no concept), the heap it leaves and the exception raised.  Past the
\* liftability test, map() is called with the lambda alone and raises
\* TypeError; the text of the function ends inside the call that would
\* make the new concept.
lift_substructure_match(H, subm) ==
    LET liftable == is_liftable_substructure_match(subm)
    IN  IF liftable.fault # "none"
        THEN [H |-> H, value |-> None, fault |-> liftable.fault]
        ELSE IF ~liftable.value
        THEN [H |-> H, value |-> None, fault |-> "none"]
        ELSE [H |-> H, value |-> None, fault |-> "TypeError"]

\* any_rep_substructure_match, given the list acum made for the default of
\* the flattening: what the call gives and the list as the call leaves it.
\* Unless a full match is found and no child submatches are asked for, the
\* expanded representations are flattened and then the name
\* flatten_fully_expanded_reps is read, which nothing defines.
any_rep_substructure_match(H, expanded_reps, c, include_child_submatches, acum) ==
    LET full_match == any_rep_match(H, expanded_reps, c)
        res == IF full_match
               THEN <<SubstructureMatch(<<c>>, <<WHOLE_CONCEPT>>)>>
               ELSE <<>>
        flattened_expanded_reps ==
            flatten_fully_expanded_representations(expanded_reps, <<>>, acum)
    IN  IF full_match /\ ~include_child_submatches
        THEN [outcome |-> Returned(res), acum |-> acum]
        ELSE IF flattened_expanded_reps.fault # "none"
        THEN [outcome |-> Raised(flattened_expanded_reps.fault), acum |-> acum]
        ELSE [outcome |-> Raised("NameError"),
              acum |-> flattened_expanded_reps.acum]

\* The last call of the substructure matching: the concept asked about,
\* the expanded representations, the flag and what the call gave.
SubMatched(c, expanded_reps, include_child_submatches, outcome) ==
    [c |-> c, expanded_reps |-> expanded_reps,
     include_child_submatches |-> include_child_submatches,
     outcome |-> outcome]

\* The last call on a match: the function, the match, the truth value or
\* the concept returned and the exception raised.
Lifted(op, subm, liftable, newc, fault) ==
    [op |-> op, subm |-> subm, liftable |-> liftable, newc |-> newc,
     fault |-> fault]

\* -------------------------------------------------------------------- CLI
\* The State object made once, when the class body of InterpreterBase is
\* run, for the default of init_state: its fields are current_concept,
\* top_level_concepts and prompts.  NoState is the state of an interpreter
\* that was finished.
DefaultState == "State.initial_state()"
NoState == "None"

\* InterpreterBase.__init__: the interpreter holds the state it is given.
InterpreterBase_init(init_state) == [state |-> init_state]

\* InterpreterBase.is_done
is_done(interp) == interp.state = NoState

\* InterpreterBase.finish
finish(interp) == [interp EXCEPT !.state = NoState]

\* current_interpreter_index when it is None.
NoIndex == -1000

\* interpreters[index]: a negative index counts from the end of the list.
ValidIndex(list, index) == -Len(list) <= index /\ index < Len(list)
Position(list, index) == IF index >= 0 THEN index + 1 ELSE Len(list) + index + 1

\* InterpreterBase.remove_done_prompts
remove_done_prompts(ps, finished) ==
    SelectSeq(ps, LAMBDA p : p.concept \notin finished)

\* CLI._discard_prompts: the prompts of the state the interpreter holds
\* are finished.
discard_prompts(interp, ps, finished) ==
    IF interp.state = DefaultState
    THEN finished \cup {ps[i].concept : i \in 1..Len(ps)}
    ELSE finished

\* The end of CLI.read_eval_print: the index moves off the interpreters
\* that are done, then they are deleted from the list.
RECURSIVE shift_index(_, _, _)
shift_index(index, to_remove, n) ==
    IF index # NoIndex /\ index \in to_remove
    THEN shift_index(IF index - 1 < 0 THEN n - 1 ELSE index - 1, to_remove, n)
    ELSE index

cleanup(interps, index) ==
    LET to_remove == {i \in 0..Len(interps) - 1 : is_done(interps[i + 1])}
        index1 == IF Cardinality(to_remove) = Len(interps) THEN NoIndex ELSE index
    IN  [interpreters |-> SelectSeq(interps, LAMBDA p : ~is_done(p)),
         index |-> shift_index(index1, to_remove, Len(interps))]

\* ------------------------------------------ the nodes of package definer
\* The association lists of a Node.
ListFields == {"representations", "pieces", "is_representation_of", "is_piece_of"}

\* A list object: the one made once for the default of a parameter of
\* Node.__init__, or one the caller made for a node.
DefaultList(field) == <<None, field>>
OwnList(n, field) == <<n, field>>

DefinerGraph == [nodes |-> definer_nodes, lists |-> definer_lists]

SetDefinerGraph(D) ==
    /\ definer_nodes' = D.nodes
    /\ definer_lists' = D.lists

\* Node.__init__ of package definer: the node keeps the list objects it is
\* given, the defaults included.
definer_Node_init(D, given) ==
    LET handles == DOMAIN D.lists \cup {given[f] : f \in ListFields}
    IN  [nodes |-> Append(D.nodes, given),
         lists |-> [h \in handles |->
                       IF h \in DOMAIN D.lists THEN D.lists[h] ELSE <<>>]]

\* Node(natural_token_structure)
DefaultLists == [f \in ListFields |-> DefaultList(f)]

\* Node(natural_token_structure, [], [], [], [])
OwnLists(n) == [f \in ListFields |-> OwnList(n, f)]

\* node.<field>
list_of(D, n, field) == D.lists[D.nodes[n][field]]

\* node.<field>.append( x )
list_append(D, n, field, x) ==
    [D EXCEPT !.lists[D.nodes[n][field]] = Append(@, x)]

\* Node.add_representation of package definer
definer_add_representation(D, self, node) ==
    LET D1 == IF ~InSeq(node, list_of(D, self, "representations"))
              THEN list_append(D, self, "representations", node)
              ELSE D
    IN  IF ~InSeq(self, list_of(D1, node, "is_representation_of"))
        THEN list_append(D1, node, "is_representation_of", self)
        ELSE D1

\* Node.add_piece of package definer
definer_add_piece(D, self, node) ==
    LET D1 == IF ~InSeq(node, list_of(D, self, "pieces"))
              THEN list_append(D, self, "pieces", node)
              ELSE D
    IN  IF ~InSeq(self, list_of(D1, node, "is_piece_of"))
        THEN list_append(D1, node, "is_piece_of", self)
        ELSE D1

\* ------------------------------------------------------------ NodeVisitor
\* The expanders given to NodeVisitor: the default one, and
\* lambda node: node.representations + node.pieces.
Expanders == {"all_children_expander", "representations_and_pieces"}

\* all_children_expander reads node.parts, an attribute no Node has.
all_children_expander(D, node) == Raised("AttributeError")

representations_and_pieces(D, node) ==
    Returned(list_of(D, node, "representations") \o list_of(D, node, "pieces"))

\* NodeVisitor._expand_children
expand_children(D, expander, node) ==
    IF expander = "all_children_expander"
    THEN all_children_expander(D, node)
    ELSE representations_and_pieces(D, node)

\* bfs_inserter: the children are taken last to first, and each one that
\* is not in q is appended to q.
RECURSIVE bfs_inserter(_, _)
bfs_inserter(q, children) ==
    IF Len(children) = 0 THEN q
    ELSE LET c == children[Len(children)]
         IN  bfs_inserter(IF InSeq(c, q) THEN q ELSE Append(q, c),
                          SubSeq(children, 1, Len(children) - 1))

\* NodeVisitor._is_done without a terminator
visitor_is_done(q) == Len(q) = 0

\* The loop of NodeVisitor.visit: order lists the nodes given to the
\* visitor hook, in the order of the calls.
RECURSIVE visit_loop(_, _, _, _, _)
visit_loop(D, expander, q, already_visited, order) ==
    IF visitor_is_done(q) THEN [order |-> order, fault |-> "none"]
    ELSE LET node == q[Len(q)]
             av == already_visited \cup {node}
             children == expand_children(D, expander, node)
         IN  IF children.fault # "none"
             THEN [order |-> Append(order, node), fault |-> children.fault]
             ELSE visit_loop(D, expander,
                             bfs_inserter(SubSeq(q, 1, Len(q) - 1),
                                          SelectSeq(children.value,
                                                    LAMBDA c : c \notin av)),
                             av, Append(order, node))

\* NodeVisitor( visitor = hook, expander = expander ).visit( roots )
NodeVisitor_visit(D, roots, expander) == visit_loop(D, expander, roots, {}, <<>>)

\* The last visit of the graph as it is now, and its outcome.
Visited(called, roots, expander, outcome) ==
    [called |-> called, roots |-> roots, expander |-> expander,
     order |-> outcome.order, fault |-> outcome.fault]

\* The graph was not visited since it last changed.
NoVisit ==
    Visited(FALSE, <<>>, "all_children_expander",
            [order |-> <<>>, fault |-> "none"])

\* ------------------------------------- the interpreter of package definer
\* InterpreterBase( name, state = InterpreterBase.State() ); done is true
\* when the state is None.
definer_InterpreterBase_init ==
    [done |-> FALSE, current_node |-> None, toplevel_nodes |-> <<>>,
     prompts |-> <<>>]

\* The graph and the interpreter of package definer and the exception
\* raised.
DefinerMachine(D, I, fault) == [D |-> D, I |-> I, fault |-> fault]

\* MessagePrompt.__init__ reads framework.message_node, a name the module
\* framework of package definer does not define.
MessagePrompt_init(message) == Raised("AttributeError")

\* InterpreterBase.error_prompt of package definer
error_prompt(X, message) ==
    IF X.I.done THEN [X EXCEPT !.fault = "AttributeError"]
    ELSE LET p == MessagePrompt_init(message)
         IN  IF p.fault # "none" THEN [X EXCEPT !.fault = p.fault]
             ELSE [X EXCEPT !.I.prompts = Append(@, message)]

\* The commands that have an _execute_ method among those of the inputs.
Executors == {"finish"}

\* InterpreterBase._execute_finish
execute_finish(X) == [X EXCEPT !.I = [definer_InterpreterBase_init EXCEPT !.done = TRUE]]

\* InterpreterBase._evaluate_command with no callback registered
evaluate_command(X, cmd) ==
    LET X1 == IF cmd \notin Executors
              THEN error_prompt(X, Message("Unknwon Command encountered", 0))
              ELSE X
    IN  IF X1.fault # "none" THEN X1
        ELSE IF cmd \in Executors THEN execute_finish(X1)
        ELSE error_prompt(X1, Message("Unknown command", 0))

\* InterpreterBase._evaluate_statement
evaluate_statement(X) ==
    LET D1 == definer_Node_init(X.D, DefaultLists)
        node == Len(D1.nodes)
    IN  IF X.I.current_node # None
        THEN [X EXCEPT !.D = definer_add_representation(D1, X.I.current_node, node)]
        ELSE [X EXCEPT !.D = D1,
                       !.I.toplevel_nodes = Append(@, node),
                       !.I.current_node = node]

\* ------------------------------------------------------------------- Init
Op(op, c, arg, res, fault) ==
    [op |-> op, c |-> c, arg |-> arg, res |-> res, fault |-> fault]

EmptyHeap ==
    [ids |-> {}, ctype |-> <<>>, parent |-> <<>>, children |-> <<>>,
     ctxof |-> <<>>, ctx |-> [h \in {DefaultContext} |-> EmptyDict],
     reps |-> <<>>, defs |-> <<>>]

\* InterpreterBase.State.initial_state: one top-level concept, made without
\* a context argument.
initial_state ==
    LET c == NewId(EmptyHeap)
    IN  [H |-> ConceptBase_init(EmptyHeap, c, "BasicGrammarConcept", None, <<>>,
                                DefaultContext, <<>>, Identifier("", c)),
         current_concept |-> c, top_level_concepts |-> <<c>>, prompts |-> <<>>]

Init ==
    /\ concepts = initial_state.H.ids
    /\ ctype = initial_state.H.ctype
    /\ parent_concept = initial_state.H.parent
    /\ constituent_concepts = initial_state.H.children
    /\ context_of = initial_state.H.ctxof
    /\ contexts = initial_state.H.ctx
    /\ representations = initial_state.H.reps
    /\ definitions = initial_state.H.defs
    /\ current_concept = initial_state.current_concept
    /\ top_level_concepts = initial_state.top_level_concepts
    /\ prompts = initial_state.prompts
    /\ last_op = Op("init", None, "", None, "none")
    /\ nodes = {}
    /\ node_pieces = <<>>
    /\ node_representations = <<>>
    /\ is_piece_of = <<>>
    /\ is_representation_of = <<>>
    /\ node_context = <<>>
    /\ node_definitions = <<>>
    /\ flatten_acum = <<>>
    /\ flattened = Flattened(None, EList(<<>>), <<>>, "none")
    /\ lifted = Lifted("none", SubstructureMatch(<<>>, <<>>), FALSE, None, "none")
    /\ submatched = SubMatched(None, EList(<<>>), FALSE, Returned(<<>>))
    /\ interpreters = <<InterpreterBase_init(DefaultState)>>
    /\ current_interpreter_index = 0
    /\ finished_prompts = {}
    /\ definer_nodes = <<>>
    /\ definer_lists = [h \in {DefaultList(f) : f \in ListFields} |-> <<>>]
    /\ definer_interpreter = definer_InterpreterBase_init
    /\ visited = NoVisit

\* ------------------------------------------------ operations on concepts
Room(H, n) == Cardinality(H.ids) + n <= MaxConcepts

\* c.parse(raw) of a BasicGrammarConcept, raw holding one Statement.
ParseStatement(c, parts) ==
    /\ ctype[c] = "BasicGrammarConcept"
    /\ Room(Heap, StatementSize(parts))
    /\ LET r == concepts_from_statement(Heap, parts, c) IN
        /\ SetHeap(r.H)
        /\ last_op' = Op("parse_statement", c, "", r.c, "none")
    /\ UNCHANGED <<state_vars, node_vars, definer_vars, call_vars, cli_vars>>

\* c.parse(raw) of a BasicGrammarConcept, raw holding one ContextSwitch.
ParseContextSwitch(c, tag, source) ==
    /\ ctype[c] = "BasicGrammarConcept"
    /\ Room(Heap, 1)
    /\ IF AcceptedContext(tag)
       THEN \E fv \in compute_free_variables(source) :
              LET r == concepts_from_context_switch(Heap, source, fv, c) IN
                /\ SetHeap(r.H)
                /\ last_op' = Op("parse_context_switch", c, tag, r.c, "none")
       ELSE /\ UNCHANGED heap_vars
            /\ last_op' = Op("parse_context_switch", c, tag, None, "RuntimeError")
    /\ UNCHANGED <<state_vars, node_vars, definer_vars, call_vars, cli_vars>>

\* c.parse(raw) of a ParselessConcept.
ParselessParse(c, raw) ==
    /\ ctype[c] # "BasicGrammarConcept"
    /\ Room(Heap, 1)
    /\ LET r == ParselessConcept_parse(Heap, c, raw) IN
        /\ SetHeap(r.H)
        /\ last_op' = Op("parseless_parse", c, "", r.c, "none")
    /\ UNCHANGED <<state_vars, node_vars, definer_vars, call_vars, cli_vars>>

\* The number of identifiers bound by bind(), over all contexts.
NumBindings(H) ==
    Cardinality({<<h, k>> \in (DOMAIN H.ctx) \X Idents : k \in DOMAIN H.ctx[h]})

\* c.bind(identifier, value)
Bind(c, identifier, value) ==
    /\ \/ identifier \in DOMAIN contexts[context_of[c]]
       \/ NumBindings(Heap) < MaxBindings
    /\ SetHeap(bind(Heap, c, identifier, Value("literal", value)))
    /\ last_op' = Op("bind", c, identifier, value, "none")
    /\ UNCHANGED <<state_vars, node_vars, definer_vars, call_vars, cli_vars>>

\* c.unlink()
Unlink(c) ==
    /\ SetHeap(unlink(Heap, c))
    /\ last_op' = Op("unlink", c, "", parent_concept[c], "none")
    /\ UNCHANGED <<state_vars, node_vars, definer_vars, call_vars, cli_vars>>

\* CommandConcept(parent_concept, command_identifier, arg_concepts) called
\* with a list of concepts that exist.
CreateCommand(parent, cmd_name, arg_concepts) ==
    /\ Room(Heap, 1)
    /\ LET c == NewId(Heap) IN
        /\ SetHeap(CommandConcept_init(Heap, c, parent, cmd_name, arg_concepts))
        /\ last_op' = Op("create_command", parent, cmd_name, c, "none")
    /\ UNCHANGED <<state_vars, node_vars, definer_vars, call_vars, cli_vars>>

\* ------------------------------------------------ operations on nodes
MaxNodes == 3
MaxLinks == 2
MaxNodeDefinitions == 1

\* The number of links add_piece and add_representation have made.
RECURSIVE SumLen(_, _)
SumLen(f, S) ==
    IF S = {} THEN 0
    ELSE LET x == CHOOSE y \in S : TRUE IN Len(f[x]) + SumLen(f, S \ {x})
NumLinks(G) == SumLen(G.pieces, G.ids) + SumLen(G.representations, G.ids)

\* The number of identifiers bound by Node.bind, over all nodes.
NumNodeBindings(G) ==
    Cardinality({<<n, k>> \in G.ids \X Idents : k \in DOMAIN G.context[n]})

\* Node(TokenStructure([i]))
NewNode ==
    /\ Cardinality(nodes) < MaxNodes
    /\ SetGraph(Node_init(Graph, Cardinality(nodes) + 1))
    /\ UNCHANGED <<heap_vars, state_vars, last_op, call_vars, cli_vars, definer_vars>>

\* a.add_representation(b)
AddRepresentation(a, b) ==
    /\ InSeq(b, node_representations[a]) \/ NumLinks(Graph) < MaxLinks
    /\ SetGraph(add_representation(Graph, a, b))
    /\ UNCHANGED <<heap_vars, state_vars, last_op, call_vars, cli_vars, definer_vars>>

\* a.add_piece(b)
AddPiece(a, b) ==
    /\ InSeq(b, node_pieces[a]) \/ NumLinks(Graph) < MaxLinks
    /\ SetGraph(add_piece(Graph, a, b))
    /\ UNCHANGED <<heap_vars, state_vars, last_op, call_vars, cli_vars, definer_vars>>

\* n.bind(identifier, value)
NodeBind(n, identifier, value) ==
    /\ \/ identifier \in DOMAIN node_context[n]
       \/ NumNodeBindings(Graph) < MaxBindings
    /\ SetGraph(Node_bind(Graph, n, identifier, Value("literal", value)))
    /\ UNCHANGED <<heap_vars, state_vars, last_op, call_vars, cli_vars, definer_vars>>

\* n.bind_definition(PythonDefinition(n, source))
NodeBindDefinition(n, source) ==
    /\ n \in DOMAIN node_definitions
          \/ Cardinality(DOMAIN node_definitions) < MaxNodeDefinitions
    /\ \E fv \in compute_free_variables(source) :
          SetGraph(Node_bind_definition(Graph, n, source, fv))
    /\ UNCHANGED <<heap_vars, state_vars, last_op, call_vars, cli_vars, definer_vars>>

\* The snippets given to the definitions of nodes.
NodeSources == {Source(TRUE, <<Stmt("x", {"a", "b"})>>), Source(FALSE, <<>>)}

\* Nodes with python definitions.
NextNodes ==
    \/ NewNode
    \/ \E a, b \in nodes : AddRepresentation(a, b)
    \/ \E a, b \in nodes : AddPiece(a, b)
    \/ \E n \in nodes, identifier \in Idents, value \in Literals :
          NodeBind(n, identifier, value)
    \/ \E n \in nodes, source \in NodeSources : NodeBindDefinition(n, source)

SpecNodes == Init /\ [][NextNodes]_vars

\* ---------------------------------------------- operations of a session
\* The largest number of concepts a session allocates.
MaxSessionConcepts == 8

TheMachine ==
    Machine(Heap, current_concept, top_level_concepts, prompts, "none")

SetMachine(M) ==
    /\ SetHeap(M.H)
    /\ current_concept' = M.current_concept
    /\ top_level_concepts' = M.top_level_concepts
    /\ prompts' = M.prompts

\* interpret(raw), raw holding one Statement: the concepts are made below
\* the current concept and nothing is done with them.
InterpretStatement(parts) ==
    /\ ctype[current_concept] = "BasicGrammarConcept"
    /\ Cardinality(concepts) + StatementSize(parts) <= MaxSessionConcepts
    /\ LET r == concepts_from_statement(Heap, parts, current_concept) IN
        /\ SetHeap(r.H)
        /\ last_op' = Op("interpret_statement", current_concept, "", r.c, "none")
    /\ UNCHANGED <<state_vars, node_vars, definer_vars, call_vars, cli_vars>>

\* interpret(raw), raw holding one ContextSwitch.
InterpretContextSwitch(tag, source) ==
    /\ ctype[current_concept] = "BasicGrammarConcept"
    /\ Cardinality(concepts) + 1 <= MaxSessionConcepts
    /\ IF AcceptedContext(tag)
       THEN \E fv \in compute_free_variables(source) :
              LET r == concepts_from_context_switch(Heap, source, fv, current_concept) IN
                /\ SetHeap(r.H)
                /\ last_op' = Op("interpret_context_switch", current_concept, tag,
                                 r.c, "none")
       ELSE /\ UNCHANGED heap_vars
            /\ last_op' = Op("interpret_context_switch", current_concept, tag,
                             None, "RuntimeError")
    /\ UNCHANGED <<state_vars, node_vars, definer_vars, call_vars, cli_vars>>

\* interpret(raw), raw holding one Command: the command concept is parsed
\* below the current concept, unlinked and handed to its handler.
InterpretCommand(cmd_name, parts) ==
    /\ ctype[current_concept] = "BasicGrammarConcept"
    /\ Cardinality(concepts) + StatementSize(parts) + 1 <= MaxSessionConcepts
    /\ LET r == concepts_from_command(Heap, cmd_name, parts, current_concept)
           M == interpret_concept([TheMachine EXCEPT !.H = r.H], r.c, cmd_name)
       IN  /\ Cardinality(M.H.ids) <= MaxSessionConcepts
           /\ SetMachine(M)
           /\ last_op' = Op("interpret_command", r.c, cmd_name,
                            M.current_concept, M.fault)
    /\ UNCHANGED <<node_vars, definer_vars, call_vars, cli_vars>>

\* The snippets of the lines of a session.
SessionSources == {Source(TRUE, <<Stmt("x", {})>>), Source(FALSE, <<>>)}

NextSession ==
    \/ \E parts \in Statements : InterpretStatement(parts)
    \/ \E tag \in ContextTags, source \in SessionSources :
            InterpretContextSwitch(tag, source)
    \/ \E cmd_name \in Commands, parts \in Statements : InterpretCommand(cmd_name, parts)

SpecSession == Init /\ [][NextSession]_vars

\* The concept graph and its bindings.
Next ==
    \/ \E c \in concepts, parts \in Statements : ParseStatement(c, parts)
    \/ \E c \in concepts, identifier \in Idents, value \in Literals :
          Bind(c, identifier, value)
    \/ \E c \in concepts : Unlink(c)

Spec == Init /\ [][Next]_vars

\* The concept graph under the constructors called with any arguments.
NextCreate ==
    \/ \E c \in concepts, parts \in Statements : ParseStatement(c, parts)
    \/ \E parent \in concepts \cup {None}, args \in SeqsUpTo(concepts, MaxParts) :
          CreateCommand(parent, "enter_concept", args)
    \/ \E c \in concepts : Unlink(c)

SpecCreate == Init /\ [][NextCreate]_vars

\* Concepts with python definitions.
NextDefinitions ==
    \/ \E c \in concepts, tag \in ContextTags, source \in Sources :
          ParseContextSwitch(c, tag, source)
    \/ \E c \in concepts, raw \in RawLines : ParselessParse(c, raw)
    \/ \E c \in concepts, identifier \in Idents, value \in Literals :
          Bind(c, identifier, value)

SpecDefinitions == Init /\ [][NextDefinitions]_vars

\* ------------------------------------------------ flattening an expansion
\* The longest the list made for the default of acum is let to grow.
MaxAcum == 4

\* flatten_fully_expanded_representations( fully_expand_representations( c ) ):
\* the call names neither current_path nor acum, so acum is the list that
\* was made for its default when the function was defined.
Flatten(c) ==
    LET expanded_reps == fully_expand_representations(Heap, c)
        r == flatten_fully_expanded_representations(expanded_reps, <<>>,
                                                    flatten_acum)
    IN  /\ Len(r.acum) <= MaxAcum
        /\ flatten_acum' = r.acum
        /\ flattened' = Flattened(c, expanded_reps, r.res, r.fault)
        /\ UNCHANGED <<heap_vars, state_vars, last_op, node_vars, definer_vars, lifted,
                       submatched, cli_vars>>

NextFlatten ==
    \/ \E c \in concepts : \E parts \in Statements : ParseStatement(c, parts)
    \/ \E c \in concepts : Flatten(c)

SpecFlatten == Init /\ [][NextFlatten]_vars

\* concept.any_rep_substructure_match( fully_expand_representations( a ), c ),
\* with or without the flag include_child_submatches.
AnyRepSubstructureMatch(a, c, include_child_submatches) ==
    LET expanded_reps == fully_expand_representations(Heap, a)
        r == any_rep_substructure_match(Heap, expanded_reps, c,
                                        include_child_submatches, flatten_acum)
    IN  /\ Len(r.acum) <= MaxAcum
        /\ flatten_acum' = r.acum
        /\ submatched' = SubMatched(c, expanded_reps, include_child_submatches,
                                    r.outcome)
        /\ UNCHANGED <<heap_vars, state_vars, last_op, node_vars, definer_vars, flattened,
                       lifted, cli_vars>>

NextSubstructure ==
    \/ \E c \in concepts : \E parts \in Statements : ParseStatement(c, parts)
    \/ \E a, c \in concepts : \E include_child_submatches \in BOOLEAN :
          AnyRepSubstructureMatch(a, c, include_child_submatches)

SpecSubstructure == Init /\ [][NextSubstructure]_vars

\* ------------------------------------------------------ lifting a match
\* The most concepts a SubstructureMatch of the inputs names.
MaxMatchConcepts == 2

\* The ranges of the inputs.
Ranges == {WHOLE_CONCEPT, PartialRange(0, 1)}

\* The matches of the inputs: some concepts of the graph, none of them
\* twice, and a range for each.
SubstructureMatches ==
    {SubstructureMatch(cs, rs) :
        <<cs, rs>> \in {p \in SeqsUpTo(concepts, MaxMatchConcepts)
                             \X SeqsUpTo(Ranges, MaxMatchConcepts) :
                          /\ Len(p[1]) = Len(p[2])
                          /\ \A i, j \in 1..Len(p[1]) :
                                p[1][i] = p[1][j] => i = j}}

\* self._is_liftable_substructure_match( subm )
IsLiftable(subm) ==
    LET r == is_liftable_substructure_match(subm)
    IN  /\ lifted' = Lifted("is_liftable", subm,
                            IF r.fault = "none" THEN r.value ELSE FALSE,
                            None, r.fault)
        /\ UNCHANGED <<heap_vars, state_vars, last_op, node_vars, definer_vars,
                       flatten_acum, flattened, submatched, cli_vars>>

\* self._lift_substructure_match( subm )
Lift(subm) ==
    LET r == lift_substructure_match(Heap, subm)
    IN  /\ SetHeap(r.H)
        /\ lifted' = Lifted("lift", subm, FALSE, r.value, r.fault)
        /\ UNCHANGED <<state_vars, last_op, node_vars, definer_vars, flatten_acum, flattened,
                       submatched, cli_vars>>

NextLift ==
    \/ \E c \in concepts : \E parts \in Statements : ParseStatement(c, parts)
    \/ \E subm \in SubstructureMatches : IsLiftable(subm)
    \/ \E subm \in SubstructureMatches : Lift(subm)

SpecLift == Init /\ [][NextLift]_vars

\* ------------------------------------------------- the steps of the CLI
\* The most interpreters the CLI is asked to hold, and the most concepts
\* its sessions allocate.
MaxInterpreters == 2
MaxCLIConcepts == 5

\* The lines given to the interpreters: a statement of at most one token, or
\* a command with such a statement for its argument.
CLIStatements == SeqsUpTo(TokenSymbols, 1)
CLILines ==
    {[command |-> "", parts |-> parts] : parts \in CLIStatements}
        \cup {[command |-> cmd_name, parts |-> parts] :
                   cmd_name \in Commands, parts \in CLIStatements}

\* The indexes given to the switch command.
SwitchIndexes == -1..MaxInterpreters

\* InterpreterBase._interpret_raw on the state the interpreter holds.
interpret_raw(M, line) ==
    IF line.command = ""
    THEN [M EXCEPT !.H = concepts_from_statement(M.H, line.parts,
                                                 M.current_concept).H]
    ELSE LET r == concepts_from_command(M.H, line.command, line.parts,
                                        M.current_concept)
         IN  interpret_concept([M EXCEPT !.H = r.H], r.c, line.command)

\* The start of read_eval_print: the header of the current interpreter is
\* shown and its prompts are discarded.  _show_header reads the state of
\* the interpreter the index names and the state of each of its prompts.
HeaderFault ==
    IF ~ValidIndex(interpreters, current_interpreter_index)
    THEN "IndexError"
    ELSE IF is_done(interpreters[Position(interpreters, current_interpreter_index)])
    THEN "AttributeError"
    ELSE IF \E i \in 1..Len(prompts) : prompts[i].concept \in finished_prompts
    THEN "AttributeError"
    ELSE "none"

HeaderShown ==
    /\ current_interpreter_index # NoIndex
    /\ HeaderFault = "none"

Discarded ==
    discard_prompts(interpreters[Position(interpreters, current_interpreter_index)],
                    prompts, finished_prompts)

\* read_eval_print when the header raises: the exception is logged and no
\* line is read.
CLIHeaderFault ==
    /\ current_interpreter_index # NoIndex
    /\ HeaderFault # "none"
    /\ last_op' = Op("cli_header", None, "", None, HeaderFault)
    /\ UNCHANGED <<heap_vars, state_vars, node_vars, definer_vars, call_vars, cli_vars>>

\* read_eval_print of a line for the current interpreter.  When the
\* interpretation raises, the exception is logged and the end of the step
\* is skipped, done prompts included.
CLIInterpret(line) ==
    /\ HeaderShown
    /\ ctype[current_concept] = "BasicGrammarConcept"
    /\ Cardinality(concepts) + StatementSize(line.parts) + 2 <= MaxCLIConcepts
    /\ LET M == interpret_raw(TheMachine, line)
           c == cleanup(interpreters, current_interpreter_index)
       IN  /\ SetMachine([M EXCEPT !.prompts =
                             IF M.fault = "none"
                             THEN remove_done_prompts(M.prompts, Discarded)
                             ELSE M.prompts])
           /\ finished_prompts' = Discarded
           /\ interpreters' = IF M.fault = "none" THEN c.interpreters
                                                  ELSE interpreters
           /\ current_interpreter_index' = IF M.fault = "none" THEN c.index
                                            ELSE current_interpreter_index
           /\ last_op' = Op("cli_interpret", current_concept, line.command,
                            Cardinality(M.H.ids), M.fault)
    /\ UNCHANGED <<node_vars, definer_vars, call_vars>>

\* read_eval_print of ":/create"
CLICreate ==
    /\ HeaderShown
    /\ Len(interpreters) < MaxInterpreters
    /\ LET c == cleanup(Append(interpreters, InterpreterBase_init(DefaultState)),
                        current_interpreter_index)
       IN  /\ interpreters' = c.interpreters
           /\ current_interpreter_index' = c.index
    /\ finished_prompts' = Discarded
    /\ last_op' = Op("cli_create", None, "", None, "none")
    /\ UNCHANGED <<heap_vars, state_vars, node_vars, definer_vars, call_vars>>

\* read_eval_print of ":/switch k"
CLISwitch(k) ==
    /\ HeaderShown
    /\ LET c == cleanup(interpreters, k)
       IN  /\ interpreters' = c.interpreters
           /\ current_interpreter_index' = c.index
    /\ finished_prompts' = Discarded
    /\ last_op' = Op("cli_switch", None, "", k, "none")
    /\ UNCHANGED <<heap_vars, state_vars, node_vars, definer_vars, call_vars>>

\* read_eval_print of ":/finish"
CLIFinish ==
    /\ HeaderShown
    /\ LET at == Position(interpreters, current_interpreter_index)
           c == cleanup([interpreters EXCEPT ![at] = finish(@)],
                        current_interpreter_index)
       IN  /\ interpreters' = c.interpreters
           /\ current_interpreter_index' = c.index
    /\ finished_prompts' = Discarded
    /\ last_op' = Op("cli_finish", None, "", None, "none")
    /\ UNCHANGED <<heap_vars, state_vars, node_vars, definer_vars, call_vars>>

NextCLI ==
    \/ CLIHeaderFault
    \/ \E line \in CLILines : CLIInterpret(line)
    \/ CLICreate
    \/ \E k \in SwitchIndexes : CLISwitch(k)
    \/ CLIFinish

SpecCLI == Init /\ [][NextCLI]_vars

\* -------------------------------------------- operations of package definer
MaxDefinerNodes == 3
MaxDefinerLinks == 2
MaxRoots == 2

\* The number of entries of the association lists.
RECURSIVE Entries(_, _)
Entries(lists, S) ==
    IF S = {} THEN 0
    ELSE LET h == CHOOSE x \in S : TRUE IN Len(lists[h]) + Entries(lists, S \ {h})

DefinerRoom(D) == Entries(D.lists, DOMAIN D.lists) <= 2 * MaxDefinerLinks

DefinerNodes == 1..Len(definer_nodes)

\* Node(ts), or Node(ts, [], [], [], []) when own is true
DefinerNewNode(own) ==
    /\ Len(definer_nodes) < MaxDefinerNodes
    /\ SetDefinerGraph(definer_Node_init(DefinerGraph,
            IF own THEN OwnLists(Len(definer_nodes) + 1) ELSE DefaultLists))
    /\ visited' = NoVisit
    /\ UNCHANGED <<heap_vars, state_vars, last_op, node_vars, call_vars,
                   cli_vars, definer_interpreter>>

\* a.add_representation(b)
DefinerAddRepresentation(a, b) ==
    /\ LET D == definer_add_representation(DefinerGraph, a, b) IN
          /\ DefinerRoom(D)
          /\ SetDefinerGraph(D)
    /\ visited' = NoVisit
    /\ UNCHANGED <<heap_vars, state_vars, last_op, node_vars, call_vars,
                   cli_vars, definer_interpreter>>

\* a.add_piece(b)
DefinerAddPiece(a, b) ==
    /\ LET D == definer_add_piece(DefinerGraph, a, b) IN
          /\ DefinerRoom(D)
          /\ SetDefinerGraph(D)
    /\ visited' = NoVisit
    /\ UNCHANGED <<heap_vars, state_vars, last_op, node_vars, call_vars,
                   cli_vars, definer_interpreter>>

\* NodeVisitor( visitor = hook, expander = expander ).visit( roots )
Visit(roots, expander) ==
    /\ visited' = Visited(TRUE, roots, expander,
                          NodeVisitor_visit(DefinerGraph, roots, expander))
    /\ UNCHANGED <<heap_vars, state_vars, last_op, node_vars, call_vars,
                   cli_vars, definer_nodes, definer_lists, definer_interpreter>>

TheDefinerMachine == DefinerMachine(DefinerGraph, definer_interpreter, "none")

\* interpret_full(raw), raw holding one Statement; the call raises
\* RuntimeError when the interpreter is done.
DefinerInterpretStatement ==
    /\ Len(definer_nodes) < MaxDefinerNodes
    /\ LET X == IF definer_interpreter.done
                THEN [TheDefinerMachine EXCEPT !.fault = "RuntimeError"]
                ELSE evaluate_statement(TheDefinerMachine)
       IN  /\ DefinerRoom(X.D)
           /\ SetDefinerGraph(X.D)
           /\ definer_interpreter' = X.I
           /\ last_op' = Op("definer_statement", None, "", X.I.current_node, X.fault)
    /\ visited' = NoVisit
    /\ UNCHANGED <<heap_vars, state_vars, node_vars, call_vars, cli_vars>>

\* The commands of the inputs; the last one has no _execute_ method.
DefinerCommands == {"finish", "frobnicate"}

\* interpret_full(raw), raw holding one Command.
DefinerInterpretCommand(cmd) ==
    /\ LET X == IF definer_interpreter.done
                THEN [TheDefinerMachine EXCEPT !.fault = "RuntimeError"]
                ELSE evaluate_command(TheDefinerMachine, cmd)
       IN  /\ definer_interpreter' = X.I
           /\ last_op' = Op("definer_command", None, cmd, X.I.current_node, X.fault)
    /\ UNCHANGED <<heap_vars, state_vars, node_vars, call_vars, cli_vars,
                   definer_nodes, definer_lists, visited>>

\* The node graph of package definer under its interpreter.
NextDefiner ==
    \/ \E own \in BOOLEAN : DefinerNewNode(own)
    \/ \E a, b \in DefinerNodes : DefinerAddRepresentation(a, b)
    \/ \E a, b \in DefinerNodes : DefinerAddPiece(a, b)
    \/ DefinerInterpretStatement
    \/ \E cmd \in DefinerCommands : DefinerInterpretCommand(cmd)

SpecDefiner == Init /\ [][NextDefiner]_vars

\* The node graph of package definer and the visits of it.
NextVisitor ==
    \/ \E own \in BOOLEAN : DefinerNewNode(own)
    \/ \E a, b \in DefinerNodes : DefinerAddRepresentation(a, b)
    \/ \E a, b \in DefinerNodes : DefinerAddPiece(a, b)
    \/ \E roots \in SeqsUpTo(DefinerNodes, MaxRoots), expander \in Expanders :
          Visit(roots, expander)

SpecVisitor == Init /\ [][NextVisitor]_vars


\* ============================================================== properties
\* The heap of the next state.
HeapNext ==
    [ids |-> concepts', ctype |-> ctype', parent |-> parent_concept',
     children |-> constituent_concepts', ctxof |-> context_of',
     ctx |-> contexts', reps |-> representations', defs |-> definitions']

HasOwn(H, c, k) == k \in DOMAIN H.ctx[H.ctxof[c]]
OwnValue(H, c, k) == H.ctx[H.ctxof[c]][k]
Last(s) == s[Len(s)]
IndexIn(s, x) == CHOOSE i \in 1..Len(s) : s[i] = x

\* The proper ancestors of c, by parent references.
RECURSIVE AncestorsOf(_, _)
AncestorsOf(H, c) ==
    IF H.parent[c] = None THEN {}
    ELSE {H.parent[c]} \cup AncestorsOf(H, H.parent[c])

\* The downward paths from P, level by level: every path starts at P and
\* each next concept is a constituent of the one before.
RECURSIVE PathsFrom(_, _, _)
PathsFrom(H, level, n) ==
    IF n = 0 \/ level = {} THEN level
    ELSE level \cup
         PathsFrom(H, {Append(p, c) : <<p, c>> \in
                          {<<q, d>> \in level \X H.ids : InSeq(d, H.children[Last(q)])}},
                   n - 1)
DownPaths(H, P) == PathsFrom(H, {<<P>>}, Cardinality(H.ids))

\* The paths from P to a concept that binds k with no concept before it on
\* the path binding k.
UnshadowedPaths(H, P, k) ==
    {p \in DownPaths(H, P) :
        /\ HasOwn(H, Last(p), k)
        /\ \A i \in 1..(Len(p) - 1) : ~HasOwn(H, p[i], k)}

\* Path p comes before path q in constituent order.
PathBefore(H, p, q) ==
    \E i \in 2..Len(p) :
        /\ i <= Len(q)
        /\ \A j \in 1..(i - 1) : p[j] = q[j]
        /\ p[i] # q[i]
        /\ IndexIn(H.children[p[i - 1]], p[i]) < IndexIn(H.children[p[i - 1]], q[i])

\* C1 (shadowing): whenever a concept P binds an identifier x itself,
\* lookup_bindings(P, x) is exactly one binding, found at P, whose value is
\* P's own value for x, whatever the constituents below P bind.
C1_Shadowing ==
    \A P \in concepts : \A x \in Idents :
        HasOwn(Heap, P, x) =>
            LET r == lookup_bindings(Heap, P, x, <<>>) IN
              /\ Len(r) = 1
              /\ r[1].value = OwnValue(Heap, P, x)
              /\ r[1].identifier = x
              /\ r[1].path = <<P>>

\* A concept binds x and one of its constituents, holding another context,
\* binds x to a different value.
C1_Witness ==
    \E P \in concepts : \E x \in Idents :
        \E i \in 1..Len(constituent_concepts[P]) :
            LET C == constituent_concepts[P][i] IN
              /\ parent_concept[C] = P
              /\ context_of[C] # context_of[P]
              /\ HasOwn(Heap, P, x) /\ HasOwn(Heap, C, x)
              /\ OwnValue(Heap, P, x) # OwnValue(Heap, C, x)

\* C2 (no shadowing across siblings): when P does not bind y itself,
\* lookup_bindings(P, y) lists, in constituent order and each once, the
\* bindings of y below P that no concept above them on the way from P
\* shadows; a constituent never hides a sibling's binding.
C2_SiblingsNotShadowed ==
    \A P \in concepts : \A y \in Idents :
        ~HasOwn(Heap, P, y) =>
            LET r == lookup_bindings(Heap, P, y, <<>>) IN
              /\ {r[i].path : i \in 1..Len(r)} = UnshadowedPaths(Heap, P, y)
              /\ Len(r) = Cardinality(UnshadowedPaths(Heap, P, y))
              /\ \A i \in 1..Len(r) :
                    /\ r[i].identifier = y
                    /\ r[i].value = OwnValue(Heap, Last(r[i].path), y)
              /\ \A i, j \in 1..Len(r) :
                    i < j => PathBefore(Heap, r[i].path, r[j].path)

\* P does not bind y, two of its constituents bind y to different values,
\* and the lookup returns both, the first constituent's first.
C2_Witness ==
    \E P \in concepts : \E y \in Idents :
        /\ ~HasOwn(Heap, P, y)
        /\ Len(constituent_concepts[P]) >= 2
        /\ LET c1 == constituent_concepts[P][1]
               c2 == constituent_concepts[P][2]
               r == lookup_bindings(Heap, P, y, <<>>) IN
             /\ HasOwn(Heap, c1, y) /\ HasOwn(Heap, c2, y)
             /\ OwnValue(Heap, c1, y) # OwnValue(Heap, c2, y)
             /\ Len(r) = 2
             /\ r[1].path = <<P, c1>> /\ r[2].path = <<P, c2>>

\* C4 (contexts are owned by one concept): a bind on concept A leaves the
\* lookup of the bound identifier unchanged at every concept that is
\* neither A nor an ancestor of A.
C4_BindFrame ==
    [][last_op'.op = "bind" =>
        LET A == last_op'.c
            k == last_op'.arg IN
        \A B \in concepts \ ({A} \cup AncestorsOf(Heap, A)) :
            lookup_bindings(HeapNext, B, k, <<>>) = lookup_bindings(Heap, B, k, <<>>)]_vars

\* The siblings of the concept c unlinked by the last step.
WithoutConcept(s, c) == SelectSeq(s, LAMBDA x : x # c)

\* C5 (unlink): unlink() takes the concept out of its parent's constituent
\* list, keeping the order of the others, and clears its parent reference;
\* nothing else changes; on a concept without a parent it changes nothing;
\* it never raises.
C5_Unlink ==
    [][last_op'.op = "unlink" =>
        LET c == last_op'.c IN
        /\ last_op'.fault = "none"
        /\ parent_concept'[c] = None
        /\ \A d \in concepts \ {c} : parent_concept'[d] = parent_concept[d]
        /\ \A p \in concepts :
              constituent_concepts'[p] =
                 IF p = parent_concept[c]
                 THEN WithoutConcept(constituent_concepts[p], c)
                 ELSE constituent_concepts[p]
        /\ concepts' = concepts /\ contexts' = contexts
        /\ context_of' = context_of /\ representations' = representations
        /\ (parent_concept[c] = None => heap_vars' = heap_vars)]_vars

\* The last step unlinked a concept from the middle of its parent's list,
\* which keeps a sibling on either side.
C5_Witness ==
    /\ last_op.op = "unlink"
    /\ last_op.res # None
    /\ LET s == constituent_concepts[last_op.res] IN
         \E i \in 1..(Len(s) - 1) : s[i] < last_op.c /\ last_op.c < s[i + 1]


\* The concepts reached from c by at most n parent references.
RECURSIVE ParentReach(_, _, _)
ParentReach(H, c, n) ==
    IF n = 0 \/ H.parent[c] = None THEN {}
    ELSE {H.parent[c]} \cup ParentReach(H, H.parent[c], n - 1)

Occurrences(s, x) == Cardinality({i \in 1..Len(s) : s[i] = x})

\* C3 (ownership tree): every concept is in at most one constituent list
\* and at most once in it, a concept is in P's constituent list exactly
\* when its parent reference is P, and parent references never cycle.
C3_OwnershipTree ==
    /\ \A c \in concepts :
          /\ Cardinality({p \in concepts : InSeq(c, constituent_concepts[p])}) <= 1
          /\ \A p \in concepts : Occurrences(constituent_concepts[p], c) <= 1
    /\ \A c, p \in concepts :
          InSeq(c, constituent_concepts[p]) <=> parent_concept[c] = p
    /\ \A c \in concepts : c \notin ParentReach(Heap, c, Cardinality(concepts))

\* The concepts reached from the concepts of S by at most n steps along the
\* constituent lists.
RECURSIVE ReachDown(_, _, _)
ReachDown(H, S, n) ==
    LET T == S \cup {d \in H.ids : \E c \in S : InSeq(d, H.children[c])}
    IN  IF n = 0 \/ T = S THEN S ELSE ReachDown(H, T, n - 1)

\* The concepts a command concept owns, itself included.
OwnedBy(H, c) == ReachDown(H, {c}, Cardinality(H.ids))

\* The concepts reachable from the top-level concepts of the state.
Reachable(H, tops) ==
    ReachDown(H, {tops[i] : i \in 1..Len(tops)}, Cardinality(H.ids))

\* C6 (command concepts do not pollute later matching): every command
\* concept the interpreter has interpreted, and every argument concept it
\* owns, is unreachable from the top-level concepts of the state and is
\* not among the concepts _all_concepts lists, whether the handler
\* returned, reported a prompt or raised.
C6_CommandsUnreachable ==
    \A c \in concepts :
        ctype[c] = "CommandConcept" =>
            \A d \in OwnedBy(Heap, c) :
                /\ d \notin Reachable(Heap, top_level_concepts)
                /\ ~InSeq(d, all_concepts(Heap, top_level_concepts))

\* The last line was an enter_concept whose argument has the text of an
\* argument of an earlier command: the earlier argument would match it.
C6_Witness ==
    /\ last_op.op = "interpret_command"
    /\ last_op.arg = "enter_concept"
    /\ Len(constituent_concepts[constituent_concepts[last_op.c][1]]) = 1
    /\ \E c \in concepts \ {last_op.c} :
          /\ ctype[c] = "CommandConcept"
          /\ \E d \in OwnedBy(Heap, c) \ {c} :
                any_rep_match(Heap,
                    fully_expand_representations(Heap,
                        argument_concept(Heap, last_op.c)), d)

\* C7 (leaf well-definedness): for every concept whose context binds no
\* definition and that has no constituents, possible_definition() is a
\* definition of that concept whose get_not_well_defined() is one
\* NotWellDefinedConcept for the concept, so is_well_defined() is false.
C7_LeafNotWellDefined ==
    \A c \in concepts :
        (definition_binding(Heap, c).kind = "none"
            /\ Len(constituent_concepts[c]) = 0) =>
            LET d == possible_definition(Heap, c)
                nwd == get_not_well_defined(Heap, d) IN
              /\ d.cls = "DefinitionBase"
              /\ d.concept = c
              /\ Len(nwd) = 1
              /\ nwd[1].cls = "NotWellDefinedConcept"
              /\ nwd[1].concept = c
              /\ nwd[1].definition = d
              /\ ~is_well_defined(Heap, d)

\* A leaf without a definition lies below a concept that has a definition,
\* and a binding is in place at the root.
C7_Witness ==
    \E c \in concepts :
        /\ definition_binding(Heap, c).kind = "none"
        /\ Len(constituent_concepts[c]) = 0
        /\ parent_concept[c] # None
        /\ definition_binding(Heap, parent_concept[c]).kind = "definition"
        /\ \E x \in Idents : HasOwn(Heap, 1, x)

\* C9 (an unparseable snippet degrades to a diagnostic): a context switch
\* with an accepted tag always yields a concept with a definition bound,
\* whatever the snippet; and a definition whose scope analysis failed has
\* get_not_well_defined() equal to one NotWellDefinedSyntaxError and
\* nothing else, so it is not well-defined.
C9_SyntaxErrorDiagnostic ==
    /\ (last_op.op = "parse_context_switch" /\ AcceptedContext(last_op.arg)) =>
          /\ last_op.fault = "none"
          /\ last_op.res \in DOMAIN definitions
          /\ definition_binding(Heap, last_op.res) =
                Value("definition", last_op.res)
    /\ \A h \in DOMAIN definitions :
          ~definitions[h].free_vars.ok =>
              LET d == possible_definition(Heap, definitions[h].concept)
                  nwd == get_not_well_defined(Heap, d) IN
                /\ d.cls = "PythonDefinition" /\ d.handle = h
                /\ nwd = <<NotWellDefined("NotWellDefinedSyntaxError", d, None,
                                          "", <<>>)>>
                /\ ~is_well_defined(Heap, d)

\* The last step made a definition from a snippet that does not compile,
\* next to a definition whose snippet compiles.
C9_Witness ==
    /\ last_op.op = "parse_context_switch"
    /\ last_op.res \in DOMAIN definitions
    /\ ~definitions[last_op.res].source.ok
    /\ \E h \in DOMAIN definitions : definitions[h].source.ok

\* C10 (a default group definition is never well-defined): for every
\* concept with constituents whose context binds no definition,
\* possible_definition() is a GroupPossibleDefinition holding the possible
\* definition of each constituent, in constituent order, and it is not
\* well-defined, whatever the inner definitions are.
C10_GroupNeverWellDefined ==
    \A c \in concepts :
        (definition_binding(Heap, c).kind = "none"
            /\ Len(constituent_concepts[c]) > 0) =>
            LET d == possible_definition(Heap, c) IN
              /\ d.cls = "GroupPossibleDefinition"
              /\ d.concept = c
              /\ Len(d.inner) = Len(constituent_concepts[c])
              /\ \A i \in 1..Len(d.inner) :
                    /\ d.inner[i].concept = constituent_concepts[c][i]
                    /\ d.inner[i] = possible_definition(Heap, constituent_concepts[c][i])
              /\ ~is_well_defined(Heap, d)

\* A group over two constituents whose definitions are both well-defined.
C10_Witness ==
    \E c \in concepts :
        /\ definition_binding(Heap, c).kind = "none"
        /\ Len(constituent_concepts[c]) >= 2
        /\ \A i \in 1..Len(constituent_concepts[c]) :
              is_well_defined(Heap,
                  possible_definition(Heap, constituent_concepts[c][i]))

\* The names a snippet reads and never assigns.
ReadOnlyNames(source) == Referenced(source) \ Assigned(source)

\* The diagnostics of the list nwd that name v.
DiagnosticsFor(nwd, v) == {i \in 1..Len(nwd) : nwd[i].binding_name = v}

\* What the claim asks of the list nwd for the name v, binds being the
\* bindings the lookup of v from the owner returns.
DiagnosticFits(nwd, v, binds) ==
    LET ds == DiagnosticsFor(nwd, v) IN
    IF Len(binds) = 1 THEN ds = {}
    ELSE /\ Cardinality(ds) = 1
         /\ \A i \in ds :
               IF Len(binds) = 0
               THEN /\ nwd[i].cls = "NotWellDefinedMissingBinding"
                    /\ nwd[i].bindings = <<>>
               ELSE /\ nwd[i].cls = "NotWellDefinedAmbiguousBinding"
                    /\ nwd[i].bindings = binds

\* Free-variable completeness of the definitions of concepts: for a
\* definition whose snippet compiles, get_not_well_defined() holds one
\* diagnostic for each name read and never assigned whose lookup from the
\* owning concept gives no binding or several, and nothing else.
ConceptFreeVariableCompleteness ==
    \A h \in DOMAIN definitions :
        definitions[h].source.ok =>
            LET d == possible_definition(Heap, definitions[h].concept)
                nwd == get_not_well_defined(Heap, d)
                free == ReadOnlyNames(definitions[h].source) IN
              /\ d.handle = h
              /\ \A i \in 1..Len(nwd) : nwd[i].binding_name \in free
              /\ \A v \in free :
                    DiagnosticFits(nwd, v, lookup_bindings(Heap, d.concept, v, <<>>))

\* A definition reading a and b with a bound once and b unbound reports
\* exactly the missing b; another state has a name bound twice below the
\* owner.
ConceptMissingOnly ==
    \E h \in DOMAIN definitions :
        LET d == possible_definition(Heap, definitions[h].concept)
            nwd == get_not_well_defined(Heap, d) IN
          /\ ReadOnlyNames(definitions[h].source) = {"a", "b"}
          /\ Len(lookup_bindings(Heap, d.concept, "a", <<>>)) = 1
          /\ Len(nwd) = 1
          /\ nwd[1].cls = "NotWellDefinedMissingBinding"
          /\ nwd[1].binding_name = "b"

ConceptAmbiguous ==
    \E h \in DOMAIN definitions :
        LET d == possible_definition(Heap, definitions[h].concept)
            nwd == get_not_well_defined(Heap, d) IN
          \E i \in 1..Len(nwd) : nwd[i].cls = "NotWellDefinedAmbiguousBinding"

\* The nodes lookup_bindings goes to from the nodes of S: their pieces and
\* the nodes they represent.
LookupSuccessors(G, S) ==
    {m \in G.ids : \E n \in S :
        InSeq(m, G.pieces[n]) \/ InSeq(m, G.is_representation_of[n])}

RECURSIVE LookupReach(_, _, _)
LookupReach(G, S, k) ==
    LET T == S \cup LookupSuccessors(G, S)
    IN  IF k = 0 \/ T = S THEN S ELSE LookupReach(G, T, k - 1)

\* No lookup comes back to the node it started from.
NoLookupCycle(G) ==
    \A n \in G.ids :
        n \notin LookupReach(G, LookupSuccessors(G, {n}), Cardinality(G.ids))

\* C8 (free-variable completeness) for the definitions of nodes: on a
\* graph where no lookup runs in a circle, for a definition whose snippet
\* compiles get_not_well_defined() returns, and what it returns holds one
\* diagnostic for each name read and never assigned whose lookup from the
\* owning node gives no binding (MissingBinding) or several
\* (AmbiguousBinding, with the bindings), and nothing else.
C8_FreeVariableCompleteness ==
    \A n \in DOMAIN node_definitions :
        (node_definitions[n].source.ok /\ NoLookupCycle(Graph)) =>
            LET r == Node_get_not_well_defined(Graph, n)
                free == ReadOnlyNames(node_definitions[n].source) IN
              /\ r.fault = "none"
              /\ \A i \in 1..Len(r.value) : r.value[i].binding_name \in free
              /\ \A v \in free :
                    DiagnosticFits(r.value, v,
                        Node_lookup_bindings(Graph, n, v, <<>>, 1).value)

\* ---------------------------------------------------------------- C11
\* C11: a concept always matches its own expansion: for every concept c of
\* the graph any_rep_match(fully_expand_representations(c), c) is true.
C11_MatchSoundness ==
    \A c \in concepts :
        any_rep_match(Heap, fully_expand_representations(Heap, c), c)

\* A concept with constituents, one of which has constituents of its own,
\* matches its own expansion.
C11_Witness ==
    \E c \in concepts :
        /\ \E i \in 1..Len(constituent_concepts[c]) :
              Len(constituent_concepts[constituent_concepts[c][i]]) > 0
        /\ any_rep_match(Heap, fully_expand_representations(Heap, c), c)

\* ---------------------------------------------------------------- C12
\* The sub-expressions of an expanded representation, itself included.
RECURSIVE SubExpressions(_)
SubExpressions(e) ==
    {e} \cup UNION {SubExpressions(e.items[i]) : i \in 1..Len(e.items)}

\* The expressions the matcher is asked about: every part of the expansion
\* of every concept, the empty choice and the empty structure.
Expressions ==
    UNION {SubExpressions(fully_expand_representations(Heap, c)) : c \in concepts}
        \cup {EList(<<>>), ETuple(<<>>)}

\* The reference structural matcher, as the set of the concepts an
\* expression denotes: a leaf denotes the concepts with a representation
\* that renders to its text, a choice the union of what its alternatives
\* denote, a sequence the concepts with as many children as it has elements,
\* the i-th child being denoted by the i-th element.
RECURSIVE Denotation(_)
Denotation(e) ==
    IF e.kind = "str"
    THEN {c \in concepts : \E i \in 1..Len(representations[c]) :
                               human_friendly(representations[c][i]) = e.text}
    ELSE IF e.kind = "list"
    THEN UNION {Denotation(e.items[i]) : i \in 1..Len(e.items)}
    ELSE LET n == Len(e.items)
             D == [i \in 1..n |-> Denotation(e.items[i])]
         IN  {c \in concepts :
                 /\ Len(constituent_concepts[c]) = n
                 /\ \A i \in 1..n : constituent_concepts[c][i] \in D[i]}

\* C12: any_rep_match(expr, c) is true exactly when c is among the concepts
\* the reference structural matcher gives for expr; a sequence never matches
\* a concept with another number of children.
C12_ReferenceMatcher ==
    \A e \in Expressions : \A c \in concepts :
        /\ any_rep_match(Heap, e, c) <=> c \in Denotation(e)
        /\ (e.kind = "tuple" /\ Len(e.items) # Len(constituent_concepts[c]))
              => ~any_rep_match(Heap, e, c)

\* A sequence that matches a concept is asked about a concept with
\* children, but another number of them, and does not match it.
C12_Witness ==
    \E e \in Expressions : \E c, d \in concepts :
        /\ e.kind = "tuple" /\ Len(e.items) > 0
        /\ any_rep_match(Heap, e, c)
        /\ Len(constituent_concepts[d]) > 0
        /\ Len(e.items) # Len(constituent_concepts[d])
        /\ ~any_rep_match(Heap, e, d)

\* ---------------------------------------------------------------- C13
\* The number of flat alternatives of an expression: one for a string, the
\* sum over its members for a choice, the product over its children for a
\* sequence.
RECURSIVE AlternativeCount(_)
RECURSIVE AlternativeSum(_, _)
RECURSIVE AlternativeProduct(_, _)
AlternativeCount(e) ==
    IF e.kind = "str" THEN 1
    ELSE IF e.kind = "list" THEN AlternativeSum(e.items, 1)
    ELSE AlternativeProduct(e.items, 1)

AlternativeSum(items, i) ==
    IF i > Len(items) THEN 0
    ELSE AlternativeCount(items[i]) + AlternativeSum(items, i + 1)

AlternativeProduct(items, i) ==
    IF i > Len(items) THEN 1
    ELSE AlternativeCount(items[i]) * AlternativeProduct(items, i + 1)

\* An alternative is flat: a list of strings.
FlatAlternative(alt) ==
    alt.kind = "list" /\ \A i \in 1..Len(alt.items) : alt.items[i].kind = "str"

\* C13: the flattening of an expansion returns the complete set of flat
\* alternatives: each alternative is a list of strings, every string of the
\* choice is an alternative of its own, and there are as many alternatives
\* as the sums over the choices and the products over the sequences give.
C13_FlattenComplete ==
    (flattened.c # None /\ flattened.fault = "none") =>
        /\ \A j \in 1..Len(flattened.res) : FlatAlternative(flattened.res[j])
        /\ \A i \in 1..Len(flattened.expanded_reps.items) :
              flattened.expanded_reps.items[i].kind = "str" =>
                 \E j \in 1..Len(flattened.res) :
                    flattened.res[j] = EList(<<flattened.expanded_reps.items[i]>>)
        /\ Len(flattened.res) = AlternativeCount(flattened.expanded_reps)

PartialConcepts(subm) ==
    {subm.concepts[i] : i \in {j \in 1..Len(subm.concepts) :
                                   ~subm.constituent_ranges[j].whole}}

\* C15: the liftability test returns, and it returns true exactly when the
\* match has no partial range or all of its partial ranges lie within one
\* concept, the other concepts of the match being whole.
C15_IsLiftable ==
    lifted.op = "is_liftable" =>
        /\ lifted.fault = "none"
        /\ lifted.liftable <=> Cardinality(PartialConcepts(lifted.subm)) <= 1

\* ---------------------------------------------------------------- C16
\* C16: a lift of a match whose partial ranges touch two distinct concepts is
\* refused: it returns no concept, raises nothing, and leaves every
\* concept's parent, children and context, and the current concept, as they
\* were.
C16_LiftabilityRejection ==
    [][(/\ lifted' # lifted
        /\ lifted'.op = "lift"
        /\ Cardinality(PartialConcepts(lifted'.subm)) >= 2)
       => (/\ lifted'.fault = "none"
           /\ lifted'.newc = None
           /\ UNCHANGED <<heap_vars, current_concept>>)]_vars

\* ---------------------------------------------------------------- C17
\* The lowest common ancestor of two concepts: the common ancestor that
\* has every common ancestor among its ancestors or is it.
LowestCommonAncestors(H, c1, c2) ==
    LET common == AncestorsOf(H, c1) \cap AncestorsOf(H, c2)
    IN  {a \in common : \A b \in common : b = a \/ b \in AncestorsOf(H, a)}

\* C17: a whole-range lift of two concepts c1, c2 that have a common
\* ancestor gives a new concept n owned by their lowest common ancestor,
\* with the children [c1, c2]; c1 and c2 have n as parent and are no longer
\* in the child list of their previous owner.
C17_LiftPreservesContent ==
    [][(/\ lifted' # lifted
        /\ lifted'.op = "lift"
        /\ Len(lifted'.subm.concepts) = 2
        /\ PartialConcepts(lifted'.subm) = {}
        /\ LowestCommonAncestors(Heap, lifted'.subm.concepts[1],
                                  lifted'.subm.concepts[2]) # {})
       => LET c1 == lifted'.subm.concepts[1]
              c2 == lifted'.subm.concepts[2]
              n == lifted'.newc
          IN  /\ lifted'.fault = "none"
              /\ n \in concepts' \ concepts
              /\ parent_concept'[n] \in LowestCommonAncestors(Heap, c1, c2)
              /\ constituent_concepts'[n] = <<c1, c2>>
              /\ parent_concept'[c1] = n /\ parent_concept'[c2] = n
              /\ ~InSeq(c1, constituent_concepts'[parent_concept[c1]])
              /\ ~InSeq(c2, constituent_concepts'[parent_concept[c2]])]_vars

\* ---------------------------------------------------------------- C18
\* C18: when an enter_concept command resolves its argument to no concept or
\* to several and reports a prompt, the concepts reachable from the
\* top-level concepts, with the parent, the children and the bindings of
\* each, are what they were before the command.
C18_FailedReferenceUnchanged ==
    [][(/\ last_op'.op = "interpret_command"
        /\ last_op'.arg = "enter_concept"
        /\ last_op'.c \notin concepts
        /\ last_op'.fault = "none"
        /\ Len(prompts') > Len(prompts))
       => (/\ Reachable(Heap', top_level_concepts')
                 = Reachable(Heap, top_level_concepts)
           /\ \A c \in Reachable(Heap, top_level_concepts) :
                 /\ parent_concept'[c] = parent_concept[c]
                 /\ constituent_concepts'[c] = constituent_concepts[c]
                 /\ contexts'[context_of'[c]] = contexts[context_of[c]])]_vars

\* ---------------------------------------------------------------- C19
\* The concepts of the graph of the state an interpreter holds.
SessionConcepts(interp) ==
    IF interp.state = DefaultState
    THEN Reachable(Heap, top_level_concepts) ELSE {}

\* C19: a line interpreted by the current interpreter of the CLI changes
\* neither the current concept, the top-level concepts, the prompts nor any
\* concept of another interpreter of the CLI.
C19_SessionsDisjoint ==
    [][(/\ last_op'.op = "cli_interpret"
        /\ last_op' # last_op)
       => \A j \in 1..Len(interpreters) :
             (/\ j # Position(interpreters, current_interpreter_index)
              /\ interpreters[j].state = DefaultState)
             => (/\ UNCHANGED state_vars
                 /\ \A c \in SessionConcepts(interpreters[j]) :
                       /\ parent_concept'[c] = parent_concept[c]
                       /\ constituent_concepts'[c] = constituent_concepts[c]
                       /\ contexts'[context_of'[c]] = contexts[context_of[c]])]_vars

\* ---------------------------------------------------------------- C20
\* C20: the substructure matching always returns a list of matches: the
\* list holds the whole-range match of the concept exactly when the
\* expression matches the concept, and every other entry is a partial range
\* inside the children of one concept.
C20_SubstructureMatches ==
    submatched.c # None =>
        /\ submatched.outcome.fault = "none"
        /\ InSeq(SubstructureMatch(<<submatched.c>>, <<WHOLE_CONCEPT>>),
                 submatched.outcome.value)
              <=> any_rep_match(Heap, submatched.expanded_reps, submatched.c)
        /\ \A i \in 1..Len(submatched.outcome.value) :
              LET m == submatched.outcome.value[i]
              IN  \/ m = SubstructureMatch(<<submatched.c>>, <<WHOLE_CONCEPT>>)
                  \/ /\ Len(m.concepts) = 1
                     /\ Len(m.constituent_ranges) = 1
                     /\ ~m.constituent_ranges[1].whole
                     /\ m.constituent_ranges[1].lo <= m.constituent_ranges[1].hi

\* ---------------------------------------------------------------- C22
\* The known concepts, other than the reference itself, that the reference
\* of an enter_concept command with the given argument resolves to: the
\* command is parsed below the current concept and unlinked.
ResolvedReferences(parts) ==
    LET r == concepts_from_command(Heap, "enter_concept", parts, current_concept)
        H1 == unlink(r.H, r.c)
        arg_c == argument_concept(H1, r.c)
    IN  {c0 \in Reachable(H1, top_level_concepts) \ {arg_c} :
            any_rep_match(H1, fully_expand_representations(H1, arg_c), c0)}

\* C22: enter_concept makes the one known concept its argument resolves to
\* the current concept and appends no prompt; when the argument resolves to
\* no concept or to several, the current concept stays and one prompt is
\* appended.  The current concept changes only in the first case.
C22_EnterConcept ==
    [][\A parts \in Statements :
          InterpretCommand("enter_concept", parts) =>
             /\ last_op'.fault = "none"
             /\ IF Cardinality(ResolvedReferences(parts)) = 1
                THEN /\ current_concept' \in ResolvedReferences(parts)
                     /\ prompts' = prompts
                ELSE /\ current_concept' = current_concept
                     /\ Len(prompts') = Len(prompts) + 1
             /\ current_concept' # current_concept
                   => Cardinality(ResolvedReferences(parts)) = 1]_vars

\* An enter_concept command has moved the current concept off the root.
C22_Witness ==
    /\ last_op.op = "interpret_command"
    /\ last_op.arg = "enter_concept"
    /\ last_op.fault = "none"
    /\ current_concept # initial_state.current_concept
    /\ last_op.res = current_concept
\* ---------------------------------------------------------------- C30
\* The current concept is a concept reachable from the top-level concepts.
CurrentConceptKnown ==
    /\ current_concept # None
    /\ current_concept \in Reachable(Heap, top_level_concepts)

C29_FlattenStateless ==
    flattened.c # None =>
        flattened.res =
            flatten_fully_expanded_representations(flattened.expanded_reps,
                                                   <<>>, <<>>).res

\* ---------------------------------------------------------------- C27
\* C27: after every read_eval_print step the index of the current
\* interpreter is None or a valid index into the list of interpreters that
\* names an interpreter that is not done, and no interpreter of the list
\* is done.
C27_IndexInvariant ==
    /\ \/ current_interpreter_index = NoIndex
       \/ /\ ValidIndex(interpreters, current_interpreter_index)
          /\ ~is_done(interpreters[Position(interpreters,
                                            current_interpreter_index)])
    /\ \A i \in 1..Len(interpreters) : ~is_done(interpreters[i])

\* ---------------------------------------------------------------- C28
\* Every interpreter of the list is done.
AllDone == \A i \in 1..Len(interpreters) : is_done(interpreters[i])

\* C28: the index of the current interpreter becomes None exactly in a
\* step that leaves no open interpreter that is not done, and as long as
\* the index is not None every read_eval_print step reads a line of
\* input: no step ends in the header before the line is read.
C28_ReplProgress ==
    [][/\ (current_interpreter_index # NoIndex
              /\ current_interpreter_index' = NoIndex) => AllDone'
       /\ (current_interpreter_index # NoIndex /\ AllDone')
              => current_interpreter_index' = NoIndex
       /\ last_op'.op # "cli_header"]_vars

\* ---------------------------------------------------------------- C26
\* C26: on every graph built with add_piece and add_representation the
\* lookup of every identifier from every node returns a list: it raises
\* nothing and its recursion ends.
C26_LookupReturns ==
    \A n \in nodes : \A identifier \in Idents :
        Node_lookup_bindings(Graph, n, identifier, <<>>, 1).fault = "none"

\* ---------------------------------------------------------------- C21
\* An unknown command in a session of concepts: the line raises nothing,
\* appends one prompt and leaves the current concept where it is.
ConceptUnknownCommand ==
    [][\A parts \in Statements :
          InterpretCommand("frobnicate", parts) =>
             /\ last_op'.fault = "none"
             /\ Len(prompts') = Len(prompts) + 1
             /\ SubSeq(prompts', 1, Len(prompts)) = prompts
             /\ current_concept' = current_concept]_vars

\* C21: a command whose identifier has no handler, given to an
\* interpreter that is not done, raises no fault, appends exactly one
\* diagnostic prompt and leaves the current node unchanged.
C21_UnknownCommand ==
    [][\A cmd \in DefinerCommands \ Executors :
          (~definer_interpreter.done /\ DefinerInterpretCommand(cmd)) =>
             /\ last_op'.fault = "none"
             /\ Len(definer_interpreter'.prompts)
                   = Len(definer_interpreter.prompts) + 1
             /\ definer_interpreter'.current_node
                   = definer_interpreter.current_node]_vars

\* ---------------------------------------------------------------- C23
\* The nodes the expansion of representations and pieces reaches from a
\* set of nodes in at most k steps.
RECURSIVE Within(_, _, _)
Within(D, S, k) ==
    IF k = 0 THEN S
    ELSE LET W == Within(D, S, k - 1)
         IN  W \cup {c \in 1..Len(D.nodes) :
                       \E n \in W : InSeq(c, representations_and_pieces(D, n).value)}

\* The distance of a node from the roots; more than the number of nodes
\* when the roots do not reach it.
Distance(D, roots, n) ==
    LET S == {roots[i] : i \in 1..Len(roots)}
        far == {k \in 0..Len(D.nodes) : n \in Within(D, S, k)}
    IN  IF far = {} THEN Len(D.nodes) + 1
        ELSE CHOOSE k \in far : \A m \in far : k <= m

\* C23: the visitor hook is called in breadth-first order: a node is
\* never visited after a node that is farther from the roots.
C23_BreadthFirst ==
    visited.called =>
        \A i, j \in 1..Len(visited.order) :
            i < j => Distance(DefinerGraph, visited.roots, visited.order[i])
                        <= Distance(DefinerGraph, visited.roots, visited.order[j])

\* ---------------------------------------------------------------- C24
\* No list holds a node twice.
NoDuplicates(l) == \A i, j \in 1..Len(l) : l[i] = l[j] => i = j

\* The association lists of the nodes of a session of package definer_d
\* are symmetric and hold no node twice.
NodeAssociationsSymmetric ==
    /\ \A a, b \in nodes :
          /\ InSeq(b, node_representations[a]) <=> InSeq(a, is_representation_of[b])
          /\ InSeq(b, node_pieces[a]) <=> InSeq(a, is_piece_of[b])
    /\ \A a \in nodes :
          /\ NoDuplicates(node_representations[a])
          /\ NoDuplicates(node_pieces[a])
          /\ NoDuplicates(is_representation_of[a])
          /\ NoDuplicates(is_piece_of[a])

\* C24: after any calls of add_representation and add_piece, b is a
\* representation of a exactly when a is in b.is_representation_of, b is
\* a piece of a exactly when a is in b.is_piece_of, and no association
\* list holds a node twice, the nodes made with the default lists
\* included.
C24_AssociationsSymmetric ==
    /\ \A a, b \in DefinerNodes :
          /\ InSeq(b, list_of(DefinerGraph, a, "representations"))
                <=> InSeq(a, list_of(DefinerGraph, b, "is_representation_of"))
          /\ InSeq(b, list_of(DefinerGraph, a, "pieces"))
                <=> InSeq(a, list_of(DefinerGraph, b, "is_piece_of"))
    /\ \A a \in DefinerNodes : \A f \in ListFields :
          NoDuplicates(list_of(DefinerGraph, a, f))

\* ---------------------------------------------------------------- C25
\* The number of calls of the visitor hook on a node.
Calls(order, n) == Cardinality({i \in 1..Len(order) : order[i] = n})

\* C25: a visit from distinct roots returns, having called the visitor
\* hook once on every node the roots reach and on no other node.
C25_VisitOnce ==
    (visited.called /\ NoDuplicates(visited.roots)) =>
        /\ visited.fault = "none"
        /\ \A n \in DefinerNodes :
              Calls(visited.order, n) =
                 IF Distance(DefinerGraph, visited.roots, n) <= Len(definer_nodes)
                 THEN 1 ELSE 0

\* The same for the visits made with an expander that returns the
\* representations and the pieces.
VisitOnceWithExpander ==
    (visited.called /\ NoDuplicates(visited.roots)
        /\ visited.expander = "representations_and_pieces") =>
        /\ visited.fault = "none"
        /\ \A n \in DefinerNodes :
              Calls(visited.order, n) =
                 IF Distance(DefinerGraph, visited.roots, n) <= Len(definer_nodes)
                 THEN 1 ELSE 0

====
